---------------------------- MODULE Spec2Model ----------------------------
(***************************************************************************)
(* Reference resolution and expression translation of feishu-base-parser.  *)
(*                                                                         *)
(* Text values are sequences of atoms (an atom is a run of characters that *)
(* the code never splits): the empty string is << >>, string equality is   *)
(* sequence equality and concatenation is \o.  A Python dict is a sequence *)
(* of <<key, value>> pairs in insertion order.                             *)
(***************************************************************************)
EXTENDS Naturals, Sequences, FiniteSets, TLC

(***************************************************************************)
(* Python values                                                           *)
(***************************************************************************)

\* None: what dict.get returns for a missing key
NoneVal == <<"<None>">>

\* truth value of a text-or-None value (`if x:`)
Truthy(v) == v # << >> /\ v # NoneVal

\* `a or b`
PyOr(a, b) == IF Truthy(a) THEN a ELSE b

\* `k in d`
DictHas(d, k) == \E i \in 1..Len(d) : d[i][1] = k

\* `d.get(k, default)`
DictGet(d, k, default) ==
    IF DictHas(d, k)
    THEN d[CHOOSE i \in 1..Len(d) : d[i][1] = k][2]
    ELSE default

\* `d[k] = v`: an existing key keeps its position, a new key goes last
DictPut(d, k, v) ==
    IF DictHas(d, k)
    THEN [i \in 1..Len(d) |-> IF d[i][1] = k THEN <<k, v>> ELSE d[i]]
    ELSE Append(d, <<k, v>>)

(***************************************************************************)
(* Input alphabets of the registry builder                                 *)
(***************************************************************************)

TableIds == {<<"tblA">>, <<"tblB">>}
FieldIds == {<<"fldX">>, <<"fldY">>}
AuthNames == {<<"A1">>, <<"A2">>}
MetaNames == {<<"M1">>}
FieldNames == {<<"P">>, <<"Q">>}

\* values of schema.tableMap: a mapping with a name, with an empty name, or no mapping
TInfos ==
    {[isDict |-> TRUE, name |-> n] : n \in AuthNames \cup {<< >>}}
    \cup {[isDict |-> FALSE, name |-> NoneVal]}

\* table structures of data.tables / data.table, without their fieldMap
Tables ==
    {[isDict |-> TRUE, id |-> i, name |-> n] :
        i \in TableIds \cup {NoneVal}, n \in MetaNames \cup {NoneVal}}
    \cup {[isDict |-> FALSE, id |-> NoneVal, name |-> NoneVal]}

\* option lists of a field definition
OptionLists == {<< >>, <<[id |-> <<"optR">>, name |-> <<"Red">>]>>}

\* values of a table's fieldMap
FieldDefs == {[name |-> n, options |-> o] : n \in FieldNames \cup {NoneVal}, o \in OptionLists}

\* no table structure is being scanned
NoTable == [isDict |-> FALSE, id |-> NoneVal, name |-> NoneVal, fields |-> {}]

\* no fragment is being scanned
NoItem == [schema |-> FALSE, data |-> FALSE, keys |-> {}]

\* a field key that was never read
Unseen == <<"<unseen>">>

(***************************************************************************)
(* State                                                                   *)
(***************************************************************************)

VARIABLES
    phase,        \* position of the scan: start, skip, tableMap, tables, done
    item,         \* the snapshot fragment being scanned
    table,        \* the table structure being scanned
    table_map,    \* table id -> table name
    field_map,    \* <<table id, field id>> -> field name
    option_map,   \* option id -> option name
    seenAuth,     \* history: table id -> names read from tableMap entries
    seenMeta,     \* history: table id -> names read from meta.name
    firstSource,  \* history: table id -> the kind of name read first
    lastField,    \* history: field key -> the name read last for it
    overwritten,  \* history: the field key last read again with another name
    firstOrder,   \* history: field keys in the order they were first read
    wf_table_map, \* the alias map of the workflow being translated
    steps,        \* parse_workflow: the steps of the draft read so far
    step_id_map,  \* parse_workflow: step id -> 1-based position
    lines,        \* parse_workflow: what the rendered steps cite, in output order
    idx,          \* parse_workflow: the index i of the running loop over the steps
    pc,           \* parse_workflow: position in the function
    block_map,    \* workflow id -> the name the side bar shows
    document,     \* generate_document: the descriptions emitted so far
    call          \* the last call made on the finished registry

vars == <<phase, item, table, table_map, field_map, option_map, seenAuth, seenMeta,
          firstSource, lastField, overwritten, firstOrder, wf_table_map, steps,
          step_id_map, lines, idx, pc, block_map, document, call>>

workflow == <<steps, step_id_map, lines, idx, pc>>
registry == <<table_map, field_map, option_map>>
history == <<seenAuth, seenMeta, firstSource, lastField, overwritten, firstOrder>>

(***************************************************************************)
(* build_name_registry                                                     *)
(***************************************************************************)

\* first-writer-wins variant of the authoritative registration
RegisterAuthoritativeFirstWins(tm, tid, tinfo) ==
    IF tinfo.isDict /\ Truthy(tinfo.name) /\ ~DictHas(tm, tid)
    THEN DictPut(tm, tid, tinfo.name)
    ELSE tm

\* one iteration of the tableMap loop
RegisterAuthoritative(tm, tid, tinfo) ==
    IF tinfo.isDict /\ Truthy(tinfo.name)
    THEN DictPut(tm, tid, tinfo.name)
    ELSE tm

\* the table name taken from meta.name, only for an id not yet registered
RegisterInferred(tm, t) ==
    IF t.isDict /\ Truthy(t.id) /\ ~DictHas(tm, t.id)
    THEN DictPut(tm, t.id, PyOr(t.name, t.id))
    ELSE tm

\* first-writer-wins variant of the field registration
RegisterFieldFirstWins(fm, table_id, field_id, field_def) ==
    IF DictHas(fm, <<table_id, field_id>>) THEN fm
    ELSE DictPut(fm, <<table_id, field_id>>, PyOr(field_def.name, field_id))

\* one iteration of the fieldMap loop: the field name
RegisterField(fm, table_id, field_id, field_def) ==
    DictPut(fm, <<table_id, field_id>>, PyOr(field_def.name, field_id))

\* one iteration of the fieldMap loop: the options of the field
RegisterOptions(om, options) ==
    LET RECURSIVE Go(_, _)
        Go(m, i) == IF i > Len(options) THEN m
                    ELSE Go(IF Truthy(options[i].id)
                            THEN DictPut(m, options[i].id, options[i].name)
                            ELSE m, i + 1)
    IN Go(om, 1)

InitBuild ==
    /\ phase = "start"
    /\ item = NoItem
    /\ table = NoTable
    /\ table_map = << >>
    /\ field_map = << >>
    /\ option_map = << >>
    /\ seenAuth = [t \in TableIds |-> {}]
    /\ seenMeta = [t \in TableIds |-> {}]
    /\ firstSource = [t \in TableIds |-> "none"]
    /\ lastField = [k \in TableIds \X FieldIds |-> Unseen]
    /\ overwritten = NoneVal
    /\ firstOrder = << >>
    /\ wf_table_map = << >>
    /\ steps = << >>
    /\ step_id_map = << >>
    /\ lines = << >>
    /\ idx = 0
    /\ block_map = << >>
    /\ document = << >>
    /\ pc = "idle"
    /\ call = [op |-> "none"]

Scanning == phase \in {"start", "skip", "tableMap", "tables"}

\* `for item in snapshot`: the next fragment; without 'schema' it is skipped
NextItem(hasSchema, hasData) ==
    /\ Scanning
    /\ item' = [schema |-> hasSchema, data |-> hasData, keys |-> {}]
    /\ table' = NoTable
    /\ phase' = IF hasSchema THEN "tableMap" ELSE "skip"
    /\ UNCHANGED <<registry, history, wf_table_map, block_map, document, workflow, call>>

\* `for tid, tinfo in schema.get('tableMap', {}).items()`
ScanTableMapEntry(tid, tinfo) ==
    /\ phase = "tableMap"
    /\ tid \notin item.keys
    /\ item' = [item EXCEPT !.keys = @ \cup {tid}]
    /\ table_map' = RegisterAuthoritative(table_map, tid, tinfo)
    /\ IF tinfo.isDict /\ Truthy(tinfo.name)
       THEN /\ seenAuth' = [seenAuth EXCEPT ![tid] = @ \cup {tinfo.name}]
            /\ firstSource' = [firstSource EXCEPT ![tid] = IF @ = "none" THEN "auth" ELSE @]
       ELSE UNCHANGED <<seenAuth, firstSource>>
    /\ UNCHANGED <<phase, table, field_map, option_map, seenMeta, lastField,
                   overwritten, firstOrder, wf_table_map, block_map, document,
                   workflow, call>>

\* `for table in tables`, up to the fieldMap loop; only with a 'data' section
ScanTable(t) ==
    /\ phase \in {"tableMap", "tables"}
    /\ item.data
    /\ table' = [isDict |-> t.isDict, id |-> t.id, name |-> t.name, fields |-> {}]
    /\ table_map' = RegisterInferred(table_map, t)
    /\ phase' = "tables"
    /\ IF t.isDict /\ Truthy(t.id) /\ Truthy(t.name)
       THEN /\ seenMeta' = [seenMeta EXCEPT ![t.id] = @ \cup {t.name}]
            /\ firstSource' = [firstSource EXCEPT ![t.id] = IF @ = "none" THEN "meta" ELSE @]
       ELSE UNCHANGED <<seenMeta, firstSource>>
    /\ UNCHANGED <<item, field_map, option_map, seenAuth, lastField, overwritten,
                   firstOrder, wf_table_map, block_map, document, workflow, call>>

\* `for field_id, field_def in table.get('fieldMap', {}).items()`, under `if table_id:`
ScanField(field_id, field_def) ==
    /\ phase = "tables"
    /\ table.isDict /\ Truthy(table.id)
    /\ field_id \notin table.fields
    /\ table' = [table EXCEPT !.fields = @ \cup {field_id}]
    /\ field_map' = RegisterField(field_map, table.id, field_id, field_def)
    /\ option_map' = RegisterOptions(option_map, field_def.options)
    /\ LET k == <<table.id, field_id>> IN
       /\ lastField' = [lastField EXCEPT ![k] = field_def.name]
       /\ overwritten' = IF /\ Truthy(lastField[k]) /\ lastField[k] # Unseen
                            /\ Truthy(field_def.name) /\ lastField[k] # field_def.name
                         THEN k ELSE overwritten
       /\ firstOrder' = IF lastField[k] = Unseen THEN Append(firstOrder, k) ELSE firstOrder
    /\ UNCHANGED <<phase, item, table_map, seenAuth, seenMeta, firstSource, wf_table_map,
                   block_map, document,
                   workflow, call>>

\* `return table_map, field_map, option_map`
Return ==
    /\ Scanning
    /\ phase' = "done"
    /\ item' = NoItem
    /\ table' = NoTable
    /\ UNCHANGED <<registry, history, wf_table_map, block_map, document, workflow, call>>

ItemKinds == {<<FALSE, FALSE>>, <<TRUE, FALSE>>, <<TRUE, TRUE>>}

\* the scan of the table names: fragments whose tables carry no fieldMap
NextTables ==
    \/ \E k \in ItemKinds : NextItem(k[1], k[2])
    \/ \E tid \in TableIds, tinfo \in TInfos : ScanTableMapEntry(tid, tinfo)
    \/ \E t \in Tables : ScanTable(t)
    \/ Return

SpecTables == InitBuild /\ [][NextTables]_vars

(***************************************************************************)
(* get_field_name (relationship map)                                       *)
(***************************************************************************)

\* the first key of the registry, in insertion order, with this field id
FirstMatch(fm, field_id) ==
    IF \E i \in 1..Len(fm) : fm[i][1][2] = field_id
    THEN LET i == CHOOSE j \in 1..Len(fm) :
                      /\ fm[j][1][2] = field_id
                      /\ \A h \in 1..(j - 1) : fm[h][1][2] # field_id
         IN fm[i][2]
    ELSE NoneVal

\* variant of the scan that keeps the last match
get_field_name_last(table_id, field_id, fm) ==
    IF ~Truthy(field_id) THEN <<"unknown-field">>
    ELSE IF Truthy(DictGet(fm, <<table_id, field_id>>, NoneVal))
    THEN DictGet(fm, <<table_id, field_id>>, NoneVal)
    ELSE IF \E i \in 1..Len(fm) : fm[i][1][2] = field_id
    THEN fm[CHOOSE j \in 1..Len(fm) :
                /\ fm[j][1][2] = field_id
                /\ \A h \in (j + 1)..Len(fm) : fm[h][1][2] # field_id][2]
    ELSE <<"[deleted-field:">> \o field_id \o <<"]">>

\* "unknown-field" is the literal 未知字段, "[deleted-field:" the literal [已删除的字段:
get_field_name(table_id, field_id, fm) ==
    IF ~Truthy(field_id) THEN <<"unknown-field">>
    ELSE IF Truthy(DictGet(fm, <<table_id, field_id>>, NoneVal))
    THEN DictGet(fm, <<table_id, field_id>>, NoneVal)
    ELSE IF FirstMatch(fm, field_id) # NoneVal
    THEN FirstMatch(fm, field_id)
    ELSE <<"[deleted-field:">> \o field_id \o <<"]">>

\* a call on the finished registry
GetFieldName(table_id, field_id) ==
    /\ phase = "done"
    /\ call' = [op |-> "get_field_name", table_id |-> table_id, field_id |-> field_id,
                  result |-> get_field_name(table_id, field_id, field_map)]
    /\ UNCHANGED <<phase, item, table, registry, history, wf_table_map, block_map,
                   document, workflow>>

\* table structures of the field scan
FieldTables == {t \in Tables : t.name # NoneVal \/ ~t.isDict}

\* field definitions of the field scan
FieldScanDefs ==
    {d \in FieldDefs : (d.options # << >>) <=> (d.name = <<"P">>)}

\* table ids of a call: one with fields, one without
LookupTableIds == {<<"tblA">>, <<"tblZ">>}

\* the scan of the field names: fragments without a tableMap
NextFields ==
    \/ \E k \in ItemKinds : NextItem(k[1], k[2])
    \/ \E t \in FieldTables : ScanTable(t)
    \/ \E fid \in FieldIds, fdef \in FieldScanDefs : ScanField(fid, fdef)
    \/ Return
    \/ \E tid \in LookupTableIds, fid \in FieldIds : GetFieldName(tid, fid)

SpecFields == InitBuild /\ [][NextFields]_vars

(***************************************************************************)
(* resolve_table_id, resolve_field_id (automation map)                     *)
(***************************************************************************)

\* the outcome of a statement that raises
Raise == <<"<raise>">>

\* the characters removed by strip('"') and strip('\\"')
Quote == "\""
Backslash == "\\"

\* `s.strip(chars)`: the leading and trailing atoms made of chars go
Strip(s, chars) ==
    LET RECURSIVE L(_)
        L(t) == IF t # << >> /\ Head(t) \in chars THEN L(Tail(t)) ELSE t
        RECURSIVE R(_)
        R(t) == IF t # << >> /\ t[Len(t)] \in chars
                THEN R(SubSeq(t, 1, Len(t) - 1)) ELSE t
    IN R(L(s))

\* `d[k]`: raises KeyError for a missing key
PyIndex(d, k) == IF DictHas(d, k) THEN DictGet(d, k, NoneVal) ELSE Raise

\* `info.get('TableID', '').strip('"')`
InfoTableID(info) ==
    Strip(IF info.TableID = NoneVal THEN << >> ELSE info.TableID, {Quote})

\* unguarded variant: indexes the global table without the membership test
resolve_table_id_unguarded(ref_id, wf, global_table_map) ==
    IF ~Truthy(ref_id) THEN <<"unknown-table">>
    ELSE LET id == Strip(Strip(ref_id, {Quote}), {Backslash, Quote})
         IN IF wf # << >> /\ DictHas(wf, id)
            THEN LET real_id == InfoTableID(PyIndex(wf, id))
                 IN IF DictHas(global_table_map, real_id)
                    THEN PyIndex(global_table_map, real_id)
                    ELSE IF real_id # << >> THEN real_id ELSE id
            ELSE PyIndex(global_table_map, id)

\* "unknown-table" is the literal 未知表, "[deleted-table:" the literal [已删除的表:
resolve_table_id(ref_id, wf, global_table_map) ==
    IF ~Truthy(ref_id) THEN <<"unknown-table">>
    ELSE LET id == Strip(Strip(ref_id, {Quote}), {Backslash, Quote})
         IN IF wf # << >> /\ DictHas(wf, id)
            THEN LET real_id == InfoTableID(PyIndex(wf, id))
                 IN IF DictHas(global_table_map, real_id)
                    THEN PyIndex(global_table_map, real_id)
                    ELSE IF real_id # << >> THEN real_id ELSE id
            ELSE IF DictHas(global_table_map, id)
            THEN PyIndex(global_table_map, id)
            ELSE <<"[deleted-table:">> \o id \o <<"]">>

\* atoms that begin with "tbl" / "fld" and go on with other characters
TblAtoms == {"tblA", "tblB", "tblZ"}
FldAtoms == {"fldX", "fldY", "fldZ"}

\* atoms that contain an underscore
UnderscoreAtoms == {"ref_", "_"}

\* variant that accepts one level of prefixing only
StartsWithRefTblOneLevel(s) ==
    Len(s) >= 2 /\ s[1] = "ref_" /\ s[2] \in TblAtoms

\* `ref_fid.startswith('ref_ref_tbl') or ref_fid.startswith('ref_tbl')`
StartsWithRefTbl(s) ==
    /\ Len(s) >= 2 /\ s[1] = "ref_"
    /\ \/ s[2] \in TblAtoms
       \/ Len(s) >= 3 /\ s[2] = "ref_" /\ s[3] \in TblAtoms

\* a match of (tbl[^_]+)_(fld.+) that starts at atom i: the table token runs to
\* the next underscore, the field token from there to the end of the text
MatchAt(s, i) ==
    /\ s[i] \in TblAtoms
    /\ \E j \in i..(Len(s) - 2) :
          /\ \A h \in i..j : s[h] \notin UnderscoreAtoms
          /\ s[j + 1] = "_"
          /\ s[j + 2] \in FldAtoms

\* `re.search(r'(tbl[^_]+)_(fld.+)', ref_fid)`: the leftmost match, or none
RefSearch(s) ==
    IF \E i \in 1..Len(s) : MatchAt(s, i)
    THEN LET i == CHOOSE a \in 1..Len(s) :
                      MatchAt(s, a) /\ \A b \in 1..(a - 1) : ~MatchAt(s, b)
             j == CHOOSE c \in i..(Len(s) - 2) :
                      /\ \A h \in i..c : s[h] \notin UnderscoreAtoms
                      /\ s[c + 1] = "_"
         IN [ok |-> TRUE, tid |-> SubSeq(s, i, j), fid |-> SubSeq(s, j + 2, Len(s))]
    ELSE [ok |-> FALSE, tid |-> << >>, fid |-> << >>]

\* lines 218-238: the alias of the recovered table token, the token itself,
\* then any table with the recovered field token
ConventionLookup(real_tid, real_fid, wf, fm) ==
    LET ref_key == <<"ref_">> \o real_tid
        viaAlias == IF wf # << >> /\ DictHas(wf, ref_key)
                    THEN DictGet(fm, <<InfoTableID(PyIndex(wf, ref_key)), real_fid>>, NoneVal)
                    ELSE NoneVal
        direct == DictGet(fm, <<real_tid, real_fid>>, NoneVal)
    IN IF Truthy(viaAlias) THEN viaAlias
       ELSE IF Truthy(direct) THEN direct
       ELSE FirstMatch(fm, real_fid)

\* the name an alias entry gives the identifier through its FieldMap, or None
AliasEntryName(info, ref_fid, fm) ==
    IF DictHas(info.FieldMap, ref_fid)
    THEN DictGet(fm, <<InfoTableID(info), PyIndex(info.FieldMap, ref_fid)>>, NoneVal)
    ELSE NoneVal

\* lines 241-248: the first alias entry whose FieldMap resolves the identifier
AliasFieldLookup(ref_fid, wf, fm) ==
    IF \E i \in 1..Len(wf) : Truthy(AliasEntryName(wf[i][2], ref_fid, fm))
    THEN AliasEntryName(wf[CHOOSE i \in 1..Len(wf) :
             /\ Truthy(AliasEntryName(wf[i][2], ref_fid, fm))
             /\ \A h \in 1..(i - 1) : ~Truthy(AliasEntryName(wf[h][2], ref_fid, fm))][2],
             ref_fid, fm)
    ELSE NoneVal

\* "unknown-field" is the literal 未知字段, "[deleted-field:" the literal [已删除的字段:
resolve_field_id(ref_fid, wf, fm) ==
    IF ~Truthy(ref_fid) THEN <<"unknown-field">>
    ELSE LET id == Strip(ref_fid, {Quote})
             m == RefSearch(id)
             conv == IF StartsWithRefTbl(id) /\ m.ok
                     THEN ConventionLookup(m.tid, m.fid, wf, fm)
                     ELSE NoneVal
         IN IF conv # NoneVal THEN conv
            ELSE IF AliasFieldLookup(id, wf, fm) # NoneVal
            THEN AliasFieldLookup(id, wf, fm)
            ELSE IF FirstMatch(fm, id) # NoneVal THEN FirstMatch(fm, id)
            ELSE <<"[deleted-field:">> \o id \o <<"]">>

\* fields of a registry drawn for the resolver
MaxRegFields == 2

\* table registries build_name_registry can return
RegTableMaps ==
    {<< >>, << <<<<"tblA">>, <<"A1">>>> >>,
     << <<<<"tblA">>, <<"A1">>>>, <<<<"tblB">>, <<"tblB">>>> >>}

\* field registries build_name_registry can return: distinct keys, named or
\* carrying the field id
RegFieldMaps ==
    LET Keys == TableIds \X FieldIds
        Entries == {<<k, n>> : k \in Keys, n \in FieldNames}
        RECURSIVE Upto(_)
        Upto(n) == IF n = 0 THEN {<< >>}
                   ELSE Upto(n - 1) \cup
                        {Append(d, e) : d \in {x \in Upto(n - 1) : Len(x) = n - 1},
                                        e \in Entries}
    IN {d \in Upto(MaxRegFields) : \A i, j \in 1..Len(d) : i # j => d[i][1] # d[j][1]}

\* what an alias entry can hold: a missing, registered, unregistered or quoted
\* TableID, and a FieldMap keyed by a composite alias or by a plain identifier
AliasInfos ==
    {[TableID |-> tid, FieldMap |-> << >>] :
        tid \in {NoneVal, <<"tblB">>, <<"tblZ">>, <<Quote, "tblB", Quote>>}}
    \cup {[TableID |-> <<"tblB">>,
           FieldMap |-> << <<<<"ref_", "tblA", "_", "fldX">>, <<"fldY">>>> >>],
          [TableID |-> <<"tblB">>, FieldMap |-> << <<<<"fldZ">>, <<"fldX">>>> >>]}

\* alias maps (WorkflowExtra.Extra.TableMap) with at most one entry
WfTableMaps ==
    {<< >>} \cup
    {<< <<key, info>> >> : key \in {<<"ref_", "tblA">>, <<"ref_", "tblB">>},
                           info \in AliasInfos}

\* table identifiers handed to resolve_table_id: absent, empty, real, quoted,
\* aliases, well-formed but unregistered
TableRefIds ==
    {NoneVal, << >>, <<"tblA">>, <<"tblZ">>, <<Quote, "tblA", Quote>>,
     <<"ref_", "tblA">>, <<"ref_", "tblB">>, <<"ref_", "tblZ">>}

\* field identifiers handed to resolve_field_id: absent, empty, real, quoted,
\* aliases of one and two levels, well-formed but unregistered
FieldRefIds ==
    {NoneVal, << >>, <<"fldX">>, <<"fldZ">>, <<Quote, "fldX", Quote>>,
     <<"ref_", "tblA", "_", "fldX">>, <<"ref_", "ref_", "tblA", "_", "fldX">>,
     <<"ref_", "tblZ", "_", "fldX">>, <<"ref_", "tblA", "_", "fldZ">>,
     <<"ref_", "fldX">>, <<"ref_", "tblA">>}

InitResolve ==
    /\ phase = "done"
    /\ item = NoItem
    /\ table = NoTable
    /\ table_map \in RegTableMaps
    /\ field_map \in RegFieldMaps
    /\ option_map = << >>
    /\ seenAuth = [t \in TableIds |-> {}]
    /\ seenMeta = [t \in TableIds |-> {}]
    /\ firstSource = [t \in TableIds |-> "none"]
    /\ lastField = [k \in TableIds \X FieldIds |-> Unseen]
    /\ overwritten = NoneVal
    /\ firstOrder = << >>
    /\ wf_table_map \in WfTableMaps
    /\ steps = << >>
    /\ step_id_map = << >>
    /\ lines = << >>
    /\ idx = 0
    /\ block_map = << >>
    /\ document = << >>
    /\ pc = "idle"
    /\ call = [op |-> "none"]

\* a call of resolve_table_id while a workflow is translated
ResolveTable(ref_id) ==
    /\ call' = [op |-> "resolve_table_id", ref |-> ref_id,
                result |-> resolve_table_id(ref_id, wf_table_map, table_map)]
    /\ UNCHANGED <<phase, item, table, registry, history, wf_table_map, block_map,
                   document, workflow>>

\* a call of resolve_field_id while a workflow is translated
ResolveField(ref_fid) ==
    /\ call' = [op |-> "resolve_field_id", ref |-> ref_fid,
                result |-> resolve_field_id(ref_fid, wf_table_map, field_map)]
    /\ UNCHANGED <<phase, item, table, registry, history, wf_table_map, block_map,
                   document, workflow>>

NextResolve ==
    \/ \E r \in TableRefIds : ResolveTable(r)
    \/ \E r \in FieldRefIds : ResolveField(r)

SpecResolve == InitResolve /\ [][NextResolve]_vars

(***************************************************************************)
(* translate_formula (field table and relationship map)                    *)
(*                                                                         *)
(* An expression is a sequence of atoms: the namespace prefix, the token   *)
(* openers, the closing bracket, identifiers, names and other text.        *)
(***************************************************************************)

\* the namespace prefix
Prefix == "bitable::"

\* the brackets put around a display name: the literals 「 and 」
LQ == "<<"
RQ == ">>"

\* the openers matched by \$(?:field|column)\[
FieldOpeners == {"$field[", "$column["}

\* the end of the lazy group (.*?)\] that starts at position k: the first
\* closing bracket at or after k, 0 when there is none
CloseFrom(s, k) ==
    IF \E j \in k..Len(s) : s[j] = "]"
    THEN CHOOSE j \in k..Len(s) : s[j] = "]" /\ \A h \in k..(j - 1) : s[h] # "]"
    ELSE 0

\* variant of replace_table that renders nothing for an unregistered id
replace_table_dropped(tid, tm) ==
    IF Truthy(DictGet(tm, tid, NoneVal))
    THEN <<LQ>> \o DictGet(tm, tid, NoneVal) \o <<RQ>>
    ELSE << >>

\* field table: "[deleted-table:" is the literal [已删除的表:
replace_table(tid, tm) ==
    IF Truthy(DictGet(tm, tid, NoneVal))
    THEN <<LQ>> \o DictGet(tm, tid, NoneVal) \o <<RQ>>
    ELSE <<LQ, "[deleted-table:">> \o tid \o <<"]", RQ>>

\* variant that scans every table before it asks the current table
replace_field_scan_first(fid, current_table_id, fm) ==
    IF FirstMatch(fm, fid) # NoneVal
    THEN <<LQ>> \o FirstMatch(fm, fid) \o <<RQ>>
    ELSE <<LQ, "[unknown-field:">> \o fid \o <<"]", RQ>>

\* field table: "[unknown-field:" is the literal [未知字段:
replace_field(fid, current_table_id, fm) ==
    IF Truthy(DictGet(fm, <<current_table_id, fid>>, NoneVal))
    THEN <<LQ>> \o DictGet(fm, <<current_table_id, fid>>, NoneVal) \o <<RQ>>
    ELSE IF FirstMatch(fm, fid) # NoneVal
    THEN <<LQ>> \o FirstMatch(fm, fid) \o <<RQ>>
    ELSE <<LQ, "[unknown-field:">> \o fid \o <<"]", RQ>>

\* relationship map: "unknown-table" is the literal 未知表
get_table_name(table_id, tm) ==
    IF ~Truthy(table_id) THEN <<"unknown-table">>
    ELSE IF Truthy(DictGet(tm, table_id, NoneVal))
    THEN DictGet(tm, table_id, NoneVal)
    ELSE <<"[deleted-table:">> \o table_id \o <<"]">>

\* relationship map
replace_table_rel(tid, tm) == <<LQ>> \o get_table_name(tid, tm) \o <<RQ>>

\* relationship map
replace_field_rel(fid, current_table_id, fm) ==
    <<LQ>> \o get_field_name(current_table_id, fid, fm) \o <<RQ>>

\* re.sub(r'bitable::\$table\[(.*?)\]', replace_table, formula) from position i
RECURSIVE SubTable(_, _, _, _)
SubTable(s, i, tm, rel) ==
    IF i > Len(s) THEN << >>
    ELSE IF /\ i + 1 <= Len(s)
            /\ s[i] = Prefix
            /\ s[i + 1] = "$table["
            /\ CloseFrom(s, i + 2) # 0
    THEN LET j == CloseFrom(s, i + 2)
             tid == SubSeq(s, i + 2, j - 1)
         IN (IF rel THEN replace_table_rel(tid, tm) ELSE replace_table(tid, tm))
            \o SubTable(s, j + 1, tm, rel)
    ELSE <<s[i]>> \o SubTable(s, i + 1, tm, rel)

\* re.sub(r'\$(?:field|column)\[(.*?)\]', replace_field, formula) from position i
RECURSIVE SubField(_, _, _, _, _)
SubField(s, i, current_table_id, fm, rel) ==
    IF i > Len(s) THEN << >>
    ELSE IF s[i] \in FieldOpeners /\ CloseFrom(s, i + 1) # 0
    THEN LET j == CloseFrom(s, i + 1)
             fid == SubSeq(s, i + 1, j - 1)
         IN (IF rel THEN replace_field_rel(fid, current_table_id, fm)
                    ELSE replace_field(fid, current_table_id, fm))
            \o SubField(s, j + 1, current_table_id, fm, rel)
    ELSE <<s[i]>> \o SubField(s, i + 1, current_table_id, fm, rel)

\* formula.replace("bitable::", "")
StripPrefix(s) == SelectSeq(s, LAMBDA a : a # Prefix)

\* field table
translate_formula(formula, current_table_id, tm, fm) ==
    IF ~Truthy(formula) THEN << >>
    ELSE StripPrefix(SubField(SubTable(formula, 1, tm, FALSE), 1,
                              current_table_id, fm, FALSE))

\* relationship map
translate_formula_rel(formula, current_table_id, tm, fm) ==
    IF ~Truthy(formula) THEN << >>
    ELSE StripPrefix(SubField(SubTable(formula, 1, tm, TRUE), 1,
                              current_table_id, fm, TRUE))

\* pieces of an expression
MaxExprItems == 3

\* a reference to a registered and to an unregistered table, references to
\* fields, a separator and a standalone prefix
ExprItems ==
    {<<Prefix, "$table[", "tblA", "]">>, <<Prefix, "$table[", "tblZ", "]">>,
     <<"$field[", "fldX", "]">>, <<"$column[", "fldY", "]">>,
     <<"$field[", "fldZ", "]">>, <<".">>, <<Prefix>>}

\* expressions of at most MaxExprItems pieces
Exprs ==
    LET RECURSIVE Upto(_)
        Upto(n) == IF n = 0 THEN {<< >>}
                   ELSE Upto(n - 1) \cup {e \o x : e \in Upto(n - 1), x \in ExprItems}
    IN Upto(MaxExprItems)

\* table registries of a translation: a table name is any text, also text
\* that reads as a field reference
FormulaTableMaps ==
    {<< <<<<"tblA">>, <<"A1">>>> >>,
     << <<<<"tblA">>, <<"A1">>>>, <<<<"tblB">>, <<"A2">>>> >>,
     << <<<<"tblA">>, <<"$field[", "fldX", "]">>>> >>}

\* field registries of a translation
FormulaFieldMaps ==
    {<< <<<<<<"tblA">>, <<"fldX">>>>, <<"P">>>> >>,
     << <<<<<<"tblA">>, <<"fldX">>>>, <<"P">>>>,
        <<<<<<"tblB">>, <<"fldX">>>>, <<"Q">>>> >>,
     << <<<<<<"tblB">>, <<"fldY">>>>, <<"Q">>>> >>,
     << <<<<<<"tblA">>, <<"fldX">>>>, <<"$field[", "fldY", "]">>>>,
        <<<<<<"tblA">>, <<"fldY">>>>, <<"Q">>>> >>}

InitFormula ==
    /\ phase = "done"
    /\ item = NoItem
    /\ table = NoTable
    /\ table_map \in FormulaTableMaps
    /\ field_map \in FormulaFieldMaps
    /\ option_map = << >>
    /\ seenAuth = [t \in TableIds |-> {}]
    /\ seenMeta = [t \in TableIds |-> {}]
    /\ firstSource = [t \in TableIds |-> "none"]
    /\ lastField = [k \in TableIds \X FieldIds |-> Unseen]
    /\ overwritten = NoneVal
    /\ firstOrder = << >>
    /\ wf_table_map = << >>
    /\ steps = << >>
    /\ step_id_map = << >>
    /\ lines = << >>
    /\ idx = 0
    /\ block_map = << >>
    /\ document = << >>
    /\ pc = "idle"
    /\ call = [op |-> "none"]

\* the field table translates the formula of a field of current_table_id
TranslateFormula(formula, current_table_id) ==
    /\ call.op = "none"
    /\ call' = [op |-> "translate_formula", pass |-> 1, formula |-> formula,
                current_table_id |-> current_table_id,
                result |-> translate_formula(formula, current_table_id,
                                             table_map, field_map)]
    /\ UNCHANGED <<phase, item, table, registry, history, wf_table_map, block_map,
                   document, workflow>>

\* the relationship map translates the formula of a field of current_table_id
TranslateFormulaRel(formula, current_table_id) ==
    /\ call.op = "none"
    /\ call' = [op |-> "translate_formula_rel", pass |-> 1, formula |-> formula,
                current_table_id |-> current_table_id,
                result |-> translate_formula_rel(formula, current_table_id,
                                                 table_map, field_map)]
    /\ UNCHANGED <<phase, item, table, registry, history, wf_table_map, block_map,
                   document, workflow>>

\* the translated text is translated again with the same registry
TranslateAgain ==
    /\ call.op \in {"translate_formula", "translate_formula_rel"}
    /\ call.pass = 1
    /\ call' = [call EXCEPT
                  !.pass = 2,
                  !.formula = call.result,
                  !.result =
                      IF call.op = "translate_formula"
                      THEN translate_formula(call.result, call.current_table_id,
                                             table_map, field_map)
                      ELSE translate_formula_rel(call.result, call.current_table_id,
                                                 table_map, field_map)]
    /\ UNCHANGED <<phase, item, table, registry, history, wf_table_map, block_map,
                   document, workflow>>

\* one expression is translated, and its translation is translated again
NextFormula ==
    \/ call.op = "none" /\ \E e \in Exprs, t \in TableIds : TranslateFormula(e, t)
    \/ call.op = "none" /\ \E e \in Exprs, t \in TableIds : TranslateFormulaRel(e, t)
    \/ TranslateAgain

SpecFormula == InitFormula /\ [][NextFormula]_vars

(***************************************************************************)
(* parse_workflow and parse_step: step sequencing                          *)
(***************************************************************************)

\* steps of a draft
MaxSteps == 3

\* str() of a position
DigitAtoms == <<"0", "1", "2", "3", "4", "5", "6", "7", "8", "9">>
PyStr(n) == <<DigitAtoms[n + 1]>>

\* step ids of a draft; "sZ" is the id of no step
StepIds == {<<"sA">>, <<"sB">>, <<"sC">>}

\* what a step holds of its type and of its successors
StepShapes ==
    {[type |-> "Other", startChildStepId |-> NoneVal,
      meetConditionStepId |-> NoneVal, notMeetConditionStepId |-> NoneVal]}
    \cup {[type |-> "Loop", startChildStepId |-> c,
           meetConditionStepId |-> NoneVal, notMeetConditionStepId |-> NoneVal] :
             c \in {<<"sB">>, <<"sZ">>}}
    \cup {[type |-> "IfElseBranch", startChildStepId |-> NoneVal,
           meetConditionStepId |-> b[1], notMeetConditionStepId |-> b[2]] :
             b \in {<<NoneVal, <<"sC">>>>, <<<<"sA">>, NoneVal>>}}

\* a step with an id, or without one
Steps ==
    {[id |-> id, type |-> sh.type, startChildStepId |-> sh.startChildStepId,
      meetConditionStepId |-> sh.meetConditionStepId,
      notMeetConditionStepId |-> sh.notMeetConditionStepId] :
        id \in StepIds \cup {NoneVal}, sh \in StepShapes}

\* draft.get('steps', []): at most MaxSteps steps
StepLists ==
    LET RECURSIVE Upto(_)
        Upto(n) == IF n = 0 THEN {<< >>}
                   ELSE Upto(n - 1) \cup
                        {Append(l, st) : l \in {x \in Upto(n - 1) : Len(x) = n - 1},
                                         st \in Steps}
    IN Upto(MaxSteps)

\* variant of the map that counts the positions from 0
RegisterStepFromZero(m, step, i) ==
    IF Truthy(step.id) THEN DictPut(m, step.id, i) ELSE m

\* one round of the loop that builds step_id_map; i is the enumerate index
RegisterStep(m, step, i) ==
    IF Truthy(step.id) THEN DictPut(m, step.id, i + 1) ELSE m

\* variant that indexes the map: step_id_map[id] raises for a missing id
StepNumIndexed(m, id) == IF DictHas(m, id) THEN PyStr(DictGet(m, id, 0)) ELSE Raise

\* f"{step_id_map.get(id, '?')}"
StepNum(m, id) == IF DictHas(m, id) THEN PyStr(DictGet(m, id, 0)) ELSE <<"?">>

\* the lines of a rendered step that cite a position: the header, the start
\* of the loop body, the successor when the condition is met and when it is
\* not; NoneVal where the step has no such line
parse_step(step, m, step_index) ==
    [header |-> IF step_index > 0 THEN PyStr(step_index) ELSE << >>,
     loopStart |->
        IF step.type = "Loop" /\ Truthy(step.startChildStepId)
        THEN <<"goto:">> \o StepNum(m, step.startChildStepId)
        ELSE NoneVal,
     meet |->
        IF step.type # "IfElseBranch" THEN NoneVal
        ELSE IF Truthy(step.meetConditionStepId)
        THEN <<"goto:">> \o StepNum(m, step.meetConditionStepId)
        ELSE <<"continue">>,
     notMeet |->
        IF step.type # "IfElseBranch" THEN NoneVal
        ELSE IF Truthy(step.notMeetConditionStepId)
        THEN <<"goto:">> \o StepNum(m, step.notMeetConditionStepId)
        ELSE <<"no-action">>]

InitWorkflow ==
    /\ phase = "done"
    /\ item = NoItem
    /\ table = NoTable
    /\ table_map = << >>
    /\ field_map = << >>
    /\ option_map = << >>
    /\ seenAuth = [t \in TableIds |-> {}]
    /\ seenMeta = [t \in TableIds |-> {}]
    /\ firstSource = [t \in TableIds |-> "none"]
    /\ lastField = [k \in TableIds \X FieldIds |-> Unseen]
    /\ overwritten = NoneVal
    /\ firstOrder = << >>
    /\ wf_table_map = << >>
    /\ steps = << >>
    /\ step_id_map = << >>
    /\ lines = << >>
    /\ idx = 0
    /\ block_map = << >>
    /\ document = << >>
    /\ pc = "idle"
    /\ call = [op |-> "none"]

\* parse_workflow reads the steps of the draft
ParseWorkflow(step_list) ==
    /\ pc = "idle"
    /\ steps' = step_list
    /\ step_id_map' = << >>
    /\ lines' = << >>
    /\ idx' = 0
    /\ pc' = IF step_list = << >> THEN "done" ELSE "map"
    /\ UNCHANGED <<phase, item, table, registry, history, wf_table_map, block_map,
                   document, call>>

\* one round of the first loop over the steps
MapStep ==
    /\ pc = "map"
    /\ step_id_map' = RegisterStep(step_id_map, steps[idx + 1], idx)
    /\ idx' = IF idx + 1 = Len(steps) THEN 0 ELSE idx + 1
    /\ pc' = IF idx + 1 = Len(steps) THEN "render" ELSE "map"
    /\ UNCHANGED <<phase, item, table, registry, history, wf_table_map, block_map,
                   document, steps, lines,
                   call>>

\* one round of the second loop over the steps
RenderStep ==
    /\ pc = "render"
    /\ lines' = Append(lines, parse_step(steps[idx + 1], step_id_map, idx + 1))
    /\ idx' = idx + 1
    /\ pc' = IF idx + 1 = Len(steps) THEN "done" ELSE "render"
    /\ UNCHANGED <<phase, item, table, registry, history, wf_table_map, block_map,
                   document, steps,
                   step_id_map, call>>

NextWorkflow ==
    \/ pc = "idle" /\ \E l \in StepLists : ParseWorkflow(l)
    \/ MapStep
    \/ RenderStep

SpecWorkflow == InitWorkflow /\ [][NextWorkflow]_vars

(***************************************************************************)
(* parse_if_else_condition, parse_value_ref, parse_right_value             *)
(***************************************************************************)

\* OPERATORS: the translated operators stand for the literals 等于, 不等于,
\* 包含, 不包含, 为空, 不为空, 大于, 小于, 大于等于, 小于等于, 早于, 晚于,
\* 不晚于, 不早于, 是以下任一, 不是以下任一
OPERATORS ==
    << <<"is", <<"equals">>>>, <<"is_not", <<"not-equals">>>>,
       <<"isNot", <<"not-equals">>>>, <<"contains", <<"contains">>>>,
       <<"does_not_contain", <<"not-contains">>>>,
       <<"doesNotContain", <<"not-contains">>>>,
       <<"is_empty", <<"empty">>>>, <<"isEmpty", <<"empty">>>>,
       <<"is_not_empty", <<"not-empty">>>>, <<"isNotEmpty", <<"not-empty">>>>,
       <<"greater_than", <<"greater">>>>, <<"isGreater", <<"greater">>>>,
       <<"less_than", <<"less">>>>, <<"isLess", <<"less">>>>,
       <<"greater_than_or_equal", <<"greater-equal">>>>,
       <<"isGreaterEqual", <<"greater-equal">>>>,
       <<"less_than_or_equal", <<"less-equal">>>>,
       <<"isLessEqual", <<"less-equal">>>>,
       <<"is_before", <<"before">>>>, <<"isBefore", <<"before">>>>,
       <<"is_after", <<"after">>>>, <<"isAfter", <<"after">>>>,
       <<"is_on_or_before", <<"not-after">>>>, <<"isOnOrBefore", <<"not-after">>>>,
       <<"is_on_or_after", <<"not-before">>>>, <<"isOnOrAfter", <<"not-before">>>>,
       <<"isAnyOf", <<"any-of">>>>, <<"isNoneOf", <<"none-of">>>> >>

\* str() of a mapping: a text that holds none of its values as an atom
DictRepr == <<"<dict>">>

\* `sep.join(parts)`
RECURSIVE Join(_, _)
Join(parts, sep) ==
    IF parts = << >> THEN << >>
    ELSE IF Len(parts) = 1 THEN parts[1]
    ELSE parts[1] \o sep \o Join(Tail(parts), sep)

\* one item of a right value: a mapping with an optional text and value, or
\* a plain text kept in value
RightItemText(it) ==
    IF it.isDict
    THEN IF it.text # NoneVal THEN it.text
         ELSE IF it.value # NoneVal THEN it.value
         ELSE DictRepr
    ELSE it.value

\* a right value is a list of items, or a plain text
parse_right_value(right_value) ==
    IF right_value.isList
    THEN IF right_value.items = << >> THEN << >>
         ELSE Join([k \in 1..Len(right_value.items) |->
                       RightItemText(right_value.items[k])], <<", ">>)
    ELSE IF ~Truthy(right_value.text) THEN << >>
    ELSE right_value.text

\* attr_map and step_type_map: the literals 记录数, 记录ID, 记录, 值 and
\* 查找记录, 新增记录
attr_map ==
    << <<<<"recordNum">>, <<"record-count">>>>, <<<<"recordId">>, <<"record-id">>>>,
       <<<<"record">>, <<"record">>>>, <<<<"value">>, <<"value">>>> >>
step_type_map ==
    << <<<<"FindRecordAction">>, <<"find-record">>>>,
       <<<<"AddRecordAction">>, <<"add-record">>>> >>

\* a value reference: absent, a plain text, or a mapping with type, tagType,
\* stepNum, attribute, stepType and the field ids of its fields list;
\* "unknown" is the literal 未知, "[step" the literal [步骤
parse_value_ref(value_obj, wf, fm) ==
    IF value_obj.kind = "none" THEN <<"unknown">>
    ELSE IF value_obj.kind = "str"
    THEN IF Truthy(value_obj.text) THEN value_obj.text ELSE <<"unknown">>
    ELSE IF value_obj.type = "ref" /\ value_obj.tagType = "RecordAttribute"
    THEN <<"[step">> \o value_obj.stepNum \o <<"(">>
         \o DictGet(step_type_map, value_obj.stepType, value_obj.stepType)
         \o <<")'s ">> \o DictGet(attr_map, value_obj.attribute, value_obj.attribute)
         \o <<"]">>
    ELSE IF value_obj.type = "ref" /\ value_obj.tagType = "step"
    THEN IF value_obj.fields # << >>
         THEN <<"[step">> \o value_obj.stepNum \o <<"'s ", LQ>>
              \o resolve_field_id(value_obj.fields[1], wf, fm) \o <<RQ, "]">>
         ELSE <<"[step">> \o value_obj.stepNum \o <<"'s result]">>
    ELSE IF value_obj.fields # << >>
    THEN <<LQ>> \o resolve_field_id(value_obj.fields[1], wf, fm) \o <<RQ>>
    ELSE DictRepr

\* `conjunction.lower()`
Lower(s) ==
    IF s \in {"or", "Or", "OR", "oR"} THEN "or"
    ELSE IF s \in {"and", "And", "AND"} THEN "and"
    ELSE s

\* one condition that is not a group; the operators with no right side
SingleCondition(cond, wf, fm) ==
    LET left_desc == parse_value_ref(cond.leftValue, wf, fm)
        op_desc == IF DictHas(OPERATORS, cond.operator)
                   THEN DictGet(OPERATORS, cond.operator, << >>)
                   ELSE <<cond.operator>>
        right_desc == parse_right_value(cond.rightValue)
    IN IF cond.operator \in {"isEmpty", "isNotEmpty"}
       THEN left_desc \o <<" ">> \o op_desc
       ELSE left_desc \o <<" ">> \o op_desc \o <<" ", Quote>> \o right_desc \o <<Quote>>

\* "no-condition" is the literal 无条件, " or " and " and " the literals 或, 且;
\* a condition group holds single conditions and groups; present is FALSE for
\* an absent or empty condition object
RECURSIVE parse_if_else_condition(_, _, _)
parse_if_else_condition(condition_obj, wf, fm) ==
    IF ~condition_obj.present THEN <<"no-condition">>
    ELSE IF condition_obj.conditions = << >> THEN <<"no-condition">>
    ELSE Join([k \in 1..Len(condition_obj.conditions) |->
                  LET cond == condition_obj.conditions[k]
                  IN IF cond.isGroup
                     THEN <<"(">> \o parse_if_else_condition(cond, wf, fm) \o <<")">>
                     ELSE SingleCondition(cond, wf, fm)],
              IF Lower(condition_obj.conjunction) = "or" THEN <<" or ">> ELSE <<" and ">>)

\* the condition line of a rendered IfElseBranch step, NoneVal when the step
\* has no such line
ConditionLine(step_type, condition_obj, wf, fm) ==
    IF step_type = "IfElseBranch" /\ condition_obj.present
    THEN parse_if_else_condition(condition_obj, wf, fm)
    ELSE NoneVal

\* items of a right value: an option id as plain text, as the value of a
\* mapping, beside the option's text, and a mapping with neither
RightItems ==
    {[isDict |-> FALSE, text |-> NoneVal, value |-> <<"optO1">>],
     [isDict |-> TRUE, text |-> NoneVal, value |-> <<"optO1">>],
     [isDict |-> TRUE, text |-> <<"Red">>, value |-> <<"optO1">>],
     [isDict |-> TRUE, text |-> NoneVal, value |-> NoneVal]}

\* right values of a condition
RightValues ==
    {[isList |-> TRUE, items |-> << >>, text |-> NoneVal],
     [isList |-> FALSE, items |-> << >>, text |-> <<"optO1">>]}
    \cup {[isList |-> TRUE, items |-> <<it>>, text |-> NoneVal] : it \in RightItems}
    \cup {[isList |-> TRUE, items |-> <<it, it>>, text |-> NoneVal] :
             it \in {x \in RightItems : ~x.isDict}}

\* a value reference of the given shape
ValueRef(kind, text, type, tagType, fields) ==
    [kind |-> kind, text |-> text, type |-> type, tagType |-> tagType,
     stepNum |-> <<"1">>, attribute |-> <<"recordNum">>,
     stepType |-> <<"FindRecordAction">>, fields |-> fields]

\* left values of a condition: absent, a text, a field of the record, a
\* field that is not registered, a field of a step, an attribute of a step,
\* a mapping of no known shape
LeftValues ==
    {ValueRef("none", << >>, "", "", << >>),
     ValueRef("str", <<"txt">>, "", "", << >>),
     ValueRef("dict", << >>, "", "", << <<"fldX">> >>),
     ValueRef("dict", << >>, "", "", << <<"fldZ">> >>),
     ValueRef("dict", << >>, "ref", "step", << <<"fldX">> >>),
     ValueRef("dict", << >>, "ref", "RecordAttribute", << >>),
     ValueRef("dict", << >>, "", "", << >>)}

\* operators of a condition: translated, without a right side, not in OPERATORS
ConditionOperators == {"is", "isNot", "isEmpty", "custom"}

\* conditions that are not groups
SingleConditions ==
    {[isGroup |-> FALSE, leftValue |-> l, operator |-> o, rightValue |-> r] :
        l \in LeftValues, o \in ConditionOperators, r \in RightValues}

\* a group of conditions
Group(conjunction, conditions) ==
    [present |-> TRUE, isGroup |-> TRUE, conjunction |-> conjunction,
     conditions |-> conditions]

\* condition objects of a branch step: absent, without conditions, one
\* condition, two conditions, a group inside a group
ConditionObjects ==
    LET c1 == [isGroup |-> FALSE, leftValue |-> ValueRef("dict", << >>, "", "", << <<"fldX">> >>),
               operator |-> "is",
               rightValue |-> [isList |-> TRUE, text |-> NoneVal,
                               items |-> <<[isDict |-> TRUE, text |-> <<"Red">>,
                                            value |-> <<"optO1">>]>>]]
        c2 == [isGroup |-> FALSE, leftValue |-> ValueRef("str", <<"txt">>, "", "", << >>),
               operator |-> "isEmpty",
               rightValue |-> [isList |-> TRUE, text |-> NoneVal, items |-> << >>]]
    IN {[present |-> FALSE, isGroup |-> TRUE, conjunction |-> "And", conditions |-> << >>],
        Group("And", << >>)}
       \cup {Group("and", <<c>>) : c \in SingleConditions}
       \cup {Group(j, <<c1, c2>>) : j \in {"And", "OR", "or"}}
       \cup {Group("or", <<c1, Group("And", <<c2, c1>>)>>)}

\* registries and position maps of a rendered branch step
BranchFieldMaps == {<< >>, << <<<<<<"tblA">>, <<"fldX">>>>, <<"P">>>> >>}
BranchOptionMaps == {<< <<<<"optO1">>, <<"Red">>>> >>}
BranchStepIdMaps ==
    {<< >>, << <<<<"sA">>, 1>>, <<<<"sB">>, 2>>, <<<<"sC">>, 3>> >>}

InitBranch ==
    /\ phase = "done"
    /\ item = NoItem
    /\ table = NoTable
    /\ table_map = << >>
    /\ field_map \in BranchFieldMaps
    /\ option_map \in BranchOptionMaps
    /\ seenAuth = [t \in TableIds |-> {}]
    /\ seenMeta = [t \in TableIds |-> {}]
    /\ firstSource = [t \in TableIds |-> "none"]
    /\ lastField = [k \in TableIds \X FieldIds |-> Unseen]
    /\ overwritten = NoneVal
    /\ firstOrder = << >>
    /\ wf_table_map = << >>
    /\ steps = << >>
    /\ step_id_map \in BranchStepIdMaps
    /\ lines = << >>
    /\ idx = 0
    /\ block_map = << >>
    /\ document = << >>
    /\ pc = "render"
    /\ call = [op |-> "none"]

\* parse_step renders a step that holds this condition object
RenderBranch(step, condition_obj, step_index) ==
    /\ pc = "render"
    /\ call.op = "none"
    /\ call' = [op |-> "parse_step", step |-> step, condition_obj |-> condition_obj,
                condition |-> ConditionLine(step.type, condition_obj, wf_table_map,
                                            field_map),
                cites |-> parse_step(step, step_id_map, step_index)]
    /\ UNCHANGED <<phase, item, table, registry, history, wf_table_map, block_map,
                   document, workflow>>

\* one step is rendered
NextBranch ==
    call.op = "none"
    /\ \E step \in Steps, c \in ConditionObjects, k \in 1..2 : RenderBranch(step, c, k)

SpecBranch == InitBranch /\ [][NextBranch]_vars

(***************************************************************************)
(* format_value                                                            *)
(*                                                                         *)
(* A payload value is a record: kind is "none", "str", "list", "dict",     *)
(* "ref" (a mapping whose type is 'ref') or "other" (a number or a         *)
(* boolean, text holding its str()); items holds the items of a list and   *)
(* the <<key, value>> pairs of a mapping.                                  *)
(***************************************************************************)

\* the fields of a mapping whose type is 'ref'; a missing key is NoneVal,
\* fieldId is fields[0].fieldId, path the list of its path elements
NoRef ==
    [tagType |-> NoneVal, stepNum |-> NoneVal, fieldId |-> NoneVal, path |-> << >>,
     title |-> NoneVal, systemType |-> NoneVal, attribute |-> NoneVal]

VNone == [kind |-> "none", text |-> << >>, items |-> << >>, ref |-> NoRef]
VStr(t) == [kind |-> "str", text |-> t, items |-> << >>, ref |-> NoRef]
VOther(t) == [kind |-> "other", text |-> t, items |-> << >>, ref |-> NoRef]
VList(items) == [kind |-> "list", text |-> << >>, items |-> items, ref |-> NoRef]
VDict(entries) == [kind |-> "dict", text |-> << >>, items |-> entries, ref |-> NoRef]
VRef(r) == [kind |-> "ref", text |-> << >>, items |-> << >>, ref |-> r]

\* an atom that stands for a run of LongLen characters without a newline
LongAtom == "<long>"
LongLen == 400

\* len(s): every other atom counts as one character
RECURSIVE TextLen(_)
TextLen(s) ==
    IF s = << >> THEN 0
    ELSE (IF Head(s) = LongAtom THEN LongLen ELSE 1) + TextLen(Tail(s))

\* `'\n' in s`
HasNewline(s) == \E i \in 1..Len(s) : s[i] = "\n"

\* no text passes for an option id
OptAtomsNone == {}

\* atoms that begin with "opt"
OptAtoms == {"optO1", "optO2"}

\* `"  " * depth`
RECURSIVE Indent(_)
Indent(depth) == IF depth = 0 THEN << >> ELSE <<"  ">> \o Indent(depth - 1)

\* `d.get(k, default)` for a key that may be missing
GetOr(v, default) == IF v = NoneVal THEN default ELSE v

\* lines 481-499: the first path element that names a field or a record
\* attribute; "'s " is the literal 的
RECURSIVE PathDesc(_, _, _)
PathDesc(path, wf, fm) ==
    IF path = << >> THEN << >>
    ELSE LET p == Head(path)
         IN IF p.type = "Field" /\ Truthy(p.value)
            THEN IF fm # << >>
                 THEN <<"'s ", LQ>> \o resolve_field_id(p.value, wf, fm) \o <<RQ>>
                 ELSE <<"'s ", "[unknown-field:">> \o p.value \o <<"]">>
            ELSE IF p.type = "RecordAttr"
            THEN <<"'s ">> \o (IF p.value = <<"recordId">> THEN <<"record-id">>
                               ELSE IF p.value = <<"record">> THEN <<"record">>
                               ELSE GetOr(p.value, << >>))
            ELSE PathDesc(Tail(path), wf, fm)

\* lines 463-534: a typed reference; "[step" is the literal [步骤, the tags
\* stand for 循环当前记录, 结果, 触发记录, 记录属性, 公式计算, 系统变量
FormatRef(r, wf, fm) ==
    LET tag == GetOr(r.tagType, <<"unknown">>)
        step == GetOr(r.stepNum, <<"?">>)
        byField == IF Truthy(r.fieldId)
                   THEN IF fm # << >>
                        THEN <<"'s ", LQ>> \o resolve_field_id(r.fieldId, wf, fm) \o <<RQ>>
                        ELSE <<"'s ", "[unknown-field:">> \o r.fieldId \o <<"]">>
                   ELSE << >>
        field_name_desc == IF byField # << >> THEN byField ELSE PathDesc(r.path, wf, fm)
        tag_desc == IF tag = <<"loop">> THEN <<"loop-record">>
                    ELSE IF tag = <<"step">> THEN <<"result">>
                    ELSE IF tag = <<"trigger">> THEN <<"trigger-record">>
                    ELSE tag
    IN IF tag = <<"formula">>
       THEN <<"[formula: ">> \o GetOr(r.title, <<"unknown">>) \o <<"]">>
       ELSE IF tag = <<"system">>
       THEN <<"[system:">>
            \o (IF r.systemType = <<"viewUrl">> THEN <<"view-url">>
                ELSE IF r.systemType = <<"recordUrl">> THEN <<"record-url">>
                ELSE GetOr(r.systemType, <<"unknown">>))
            \o <<"]">>
       ELSE IF tag = <<"RecordAttribute">>
       THEN <<"[step">> \o step \o <<"'s ">>
            \o (IF r.attribute = <<"recordId">> THEN <<"record-id">>
                ELSE IF r.attribute = <<"record">> THEN <<"record">>
                ELSE GetOr(r.attribute, <<"unknown">>))
            \o <<"]">>
       ELSE IF tag = <<"loop">>
       THEN IF field_name_desc # << >>
            THEN <<"[step">> \o step \o <<"loop">> \o field_name_desc \o <<"]">>
            ELSE <<"[step">> \o step \o <<"'s ", "loop-record", "]">>
       ELSE IF field_name_desc # << >>
       THEN <<"[step">> \o step \o field_name_desc \o <<"]">>
       ELSE <<"[step">> \o step \o <<"'s ">> \o tag_desc \o <<"]">>

\* str() of what format_value returned: the text, or None for a missing name
StrOf(r) == IF r = NoneVal THEN <<"None">> ELSE r

\* "[empty-value]", "[empty]", "[empty-list]" are the literals [空值], [空],
\* [空列表]; an option registered without a name comes back as None, and
\* `'\n' in item` raises TypeError for an item that is None
RECURSIVE format_value(_, _, _, _, _)
format_value(value, om, depth, wf, fm) ==
    IF value.kind = "str" /\ value.text = << >> THEN <<"[empty-value]">>
    ELSE IF value.kind = "none" THEN <<"[empty]">>
    ELSE IF value.kind = "str"
    THEN IF Head(value.text) \in OptAtoms /\ om # << >>
         THEN DictGet(om, value.text, value.text)
         ELSE value.text
    ELSE IF value.kind = "list"
    THEN IF value.items = << >> THEN <<"[empty-list]">>
         ELSE LET formatted_items ==
                      [k \in 1..Len(value.items) |->
                          format_value(value.items[k], om, depth + 1, wf, fm)]
              IN IF \E k \in 1..Len(formatted_items) :
                        formatted_items[k] \in {NoneVal, Raise}
                 THEN Raise
                 ELSE IF \A k \in 1..Len(formatted_items) :
                        /\ ~HasNewline(formatted_items[k])
                        /\ TextLen(formatted_items[k]) < 50
                 THEN Join(formatted_items, <<", ">>)
                 ELSE Join([k \in 1..Len(formatted_items) |->
                               <<"\n">> \o Indent(depth) \o <<"- ">> \o formatted_items[k]],
                           << >>)
    ELSE IF value.kind = "dict"
    THEN IF value.items = << >> THEN <<"{}">>
         ELSE LET formatted_items ==
                      [k \in 1..Len(value.items) |->
                          format_value(value.items[k][2], om, depth + 1, wf, fm)]
              IN IF \E k \in 1..Len(formatted_items) : formatted_items[k] = Raise
                 THEN Raise
                 ELSE <<"{ ">>
                      \o Join([k \in 1..Len(value.items) |->
                                  value.items[k][1] \o <<": ">>
                                  \o StrOf(formatted_items[k])],
                              <<", ">>)
                      \o <<" }">>
    ELSE IF value.kind = "ref" THEN FormatRef(value.ref, wf, fm)
    ELSE value.text

(***************************************************************************)
(* parse_step: the keys a renderer consumes and the generic fallback       *)
(***************************************************************************)

\* truth value of a payload value
ValTruthy(v) ==
    IF v.kind = "none" THEN FALSE
    ELSE IF v.kind \in {"str", "other"} THEN v.text # << >> /\ v.text # <<"0">>
    ELSE IF v.kind \in {"list", "dict"} THEN v.items # << >>
    ELSE TRUE

\* the keys every renderer of a step type adds to processed_keys
TypeKeys ==
    << <<"ChangeRecordTrigger", {<<"fields">>, <<"triggerControlList">>}>>,
       <<"AddRecordTrigger", {<<"triggerControlList">>, <<"watchedFieldId">>}>>,
       <<"SetRecordTrigger", {<<"fields">>, <<"fieldIds">>, <<"filterInfo">>}>>,
       <<"TimerTrigger", {<<"rule">>, <<"startTime">>}>>,
       <<"FindRecordAction", {<<"recordInfo">>, <<"fieldsMap">>, <<"fieldIds">>,
                              <<"recordType">>, <<"shouldProceedWithNoResults">>}>>,
       <<"FindRecord", {<<"recordInfo">>, <<"fieldsMap">>, <<"fieldIds">>,
                        <<"recordType">>, <<"shouldProceedWithNoResults">>}>>,
       <<"ButtonTrigger", {<<"buttonType">>}>>,
       <<"AddRecordAction", {<<"values">>}>>,
       <<"AddRecord", {<<"values">>}>>,
       <<"SetRecordAction", {<<"recordType">>, <<"recordInfo">>, <<"maxSetRecordNum">>,
                             <<"values">>}>>,
       <<"UpdateRecordAction", {<<"recordType">>, <<"recordInfo">>,
                                <<"maxSetRecordNum">>, <<"values">>}>>,
       <<"UpdateRecord", {<<"recordType">>, <<"recordInfo">>, <<"maxSetRecordNum">>,
                          <<"values">>}>>,
       <<"Loop", {<<"loopType">>, <<"loopData">>, <<"maxLoopTimes">>, <<"loopMode">>,
                  <<"startChildStepId">>}>>,
       <<"IfElseBranch", {<<"condition">>, <<"meetConditionStepId">>,
                          <<"notMeetConditionStepId">>}>>,
       <<"CustomAction", {<<"packId">>, <<"formData">>, <<"version">>, <<"endpointId">>,
                          <<"resultTypeInfo">>, <<"packType">>}>> >>

\* processed_keys when the fallback starts
ProcessedKeys(step_type, step_data) ==
    (IF DictHas(step_data, <<"tableId">>)
        /\ ValTruthy(DictGet(step_data, <<"tableId">>, VNone))
     THEN {<<"tableId">>} ELSE {})
    \cup DictGet(TypeKeys, step_type, {})

\* variant of remaining_keys that is empty for a step type without renderer
RemainingKeysOfKnownTypes(step_type, step_data) ==
    IF DictHas(TypeKeys, step_type)
    THEN {step_data[k][1] : k \in 1..Len(step_data)} \ ProcessedKeys(step_type, step_data)
    ELSE {}

\* remaining_keys
RemainingKeys(step_type, step_data) ==
    {step_data[k][1] : k \in 1..Len(step_data)} \ ProcessedKeys(step_type, step_data)

\* the keys of a payload in the order sorted() gives them
KeyOrder ==
    <<<<"extraKey">>, <<"loopMode">>, <<"newKey">>, <<"tableId">>>>

\* `val in [None, {}, [], ""]`
IsEmptyValue(v) ==
    \/ v.kind = "none"
    \/ v.kind \in {"dict", "list"} /\ v.items = << >>
    \/ v.kind = "str" /\ v.text = << >>

\* `'fld' in v`
ContainsFld(t) == \E i \in 1..Len(t) : t[i] \in FldAtoms

\* lines 883-892: the names of the field ids that a text or a list of texts holds
ResolvedNames(val, wf, fm) ==
    LET Name(t) == resolve_field_id(t, wf, fm)
        Hit(v) == v.kind = "str" /\ ContainsFld(v.text) /\ Name(v.text) # v.text
    IN IF val.kind = "list"
       THEN LET hits == SelectSeq(val.items, Hit)
            IN [k \in 1..Len(hits) |-> Name(hits[k].text)]
       ELSE IF Hit(val) THEN <<Name(val.text)>>
       ELSE << >>

\* `s[:n]`: a run that does not fit is cut, "<cut>" the part of it kept
RECURSIVE Slice(_, _)
Slice(s, n) ==
    IF s = << >> \/ n = 0 THEN << >>
    ELSE IF Head(s) = LongAtom
    THEN IF LongLen <= n THEN <<LongAtom>> \o Slice(Tail(s), n - LongLen)
         ELSE <<"<cut>">>
    ELSE <<Head(s)>> \o Slice(Tail(s), n - 1)

\* lines 880-897: the text of the entry of a key; " (resolved: " is the
\* literal (解析:
EntryText(val, om, wf, fm) ==
    LET val_fmt == format_value(val, om, 0, wf, fm)
        resolved_names == ResolvedNames(val, wf, fm)
        full == IF resolved_names # << >>
                THEN val_fmt \o <<" (resolved: ">> \o Join(resolved_names, <<", ">>)
                     \o <<")">>
                ELSE val_fmt
    IN IF TextLen(full) > 300 THEN Slice(full, 300) \o <<"...">> ELSE full

\* lines 869-898: whether the section header is rendered, and the labelled
\* entries in output order
Fallback(step_type, step_data, om, wf, fm) ==
    LET remaining_keys == RemainingKeys(step_type, step_data)
        shown == SelectSeq(KeyOrder,
                     LAMBDA k : k \in remaining_keys
                                /\ ~IsEmptyValue(DictGet(step_data, k, VNone)))
    IN [header |-> remaining_keys # {},
        entries |-> [i \in 1..Len(shown) |->
                        <<shown[i], EntryText(DictGet(step_data, shown[i], VNone),
                                              om, wf, fm)>>]]

\* step types: with a renderer, and a type tag no renderer knows
FallbackStepTypes == {"Loop", "IfElseBranch", "CustomAction", "NewType"}

\* payload values: absent, empty, texts, identifiers, lists, mappings, a
\* typed reference, a number, a text of more than 300 characters
PayloadValues ==
    {VNone, VStr(<< >>), VStr(<<"txt">>), VStr(<<"fldX">>), VStr(<<"optO1">>),
     VList(<< >>), VList(<<VStr(<<"fldX">>), VStr(<<"fldZ">>)>>), VDict(<< >>),
     VDict(<< <<<<"k">>, VStr(<<"optO1">>)>> >>), VOther(<<"0">>),
     VStr(<<LongAtom>>),
     VRef([NoRef EXCEPT !.tagType = <<"step">>, !.stepNum = <<"1">>,
                        !.fieldId = <<"fldZ">>])}

\* payloads with at most one entry for each of three keys, not in sorted order
Payloads ==
    LET Entry(k) == {<< >>} \cup {<< <<k, v>> >> : v \in PayloadValues}
    IN {a \o b \o c : a \in Entry(<<"newKey">>), b \in Entry(<<"loopMode">>),
                      c \in Entry(<<"extraKey">>)}

InitFallback ==
    /\ phase = "done"
    /\ item = NoItem
    /\ table = NoTable
    /\ table_map = << >>
    /\ field_map \in BranchFieldMaps
    /\ option_map \in BranchOptionMaps
    /\ seenAuth = [t \in TableIds |-> {}]
    /\ seenMeta = [t \in TableIds |-> {}]
    /\ firstSource = [t \in TableIds |-> "none"]
    /\ lastField = [k \in TableIds \X FieldIds |-> Unseen]
    /\ overwritten = NoneVal
    /\ firstOrder = << >>
    /\ wf_table_map = << >>
    /\ steps = << >>
    /\ step_id_map = << >>
    /\ lines = << >>
    /\ idx = 0
    /\ block_map = << >>
    /\ document = << >>
    /\ pc = "render"
    /\ call = [op |-> "none"]

\* parse_step renders a step of this type with this payload
RenderPayload(step_type, step_data) ==
    /\ pc = "render"
    /\ call.op = "none"
    /\ call' = [op |-> "parse_step_data", step_type |-> step_type,
                step_data |-> step_data,
                other |-> Fallback(step_type, step_data, option_map, wf_table_map,
                                   field_map)]
    /\ UNCHANGED <<phase, item, table, registry, history, wf_table_map, block_map,
                   document, workflow>>

\* one step is rendered
NextFallback ==
    call.op = "none"
    /\ \E t \in FallbackStepTypes, d \in Payloads : RenderPayload(t, d)

SpecFallback == InitFallback /\ [][NextFallback]_vars

(***************************************************************************)
(* generate_document and parse_workflow: the title, the malformed draft    *)
(***************************************************************************)

\* workflows of a document
MaxWorkflows == 2

\* ACTION_TYPES: the names stand for 新增记录, 修改记录, 查找记录,
\* 条件判断（If/Else）, 自定义动作, 发送通知, 发送邮件, 删除记录
ACTION_TYPES ==
    << <<"AddRecordAction", <<"add-record">>>>,
       <<"UpdateRecordAction", <<"update-record">>>>,
       <<"FindRecordAction", <<"find-record">>>>,
       <<"IfElseBranch", <<"if-else">>>>,
       <<"CustomAction", <<"custom-action">>>>,
       <<"SendNotification", <<"send-notification">>>>,
       <<"SendEmail", <<"send-email">>>>,
       <<"DeleteRecordAction", <<"delete-record">>>>,
       <<"UpdateRecord", <<"update-record">>>>,
       <<"AddRecord", <<"add-record">>>>,
       <<"FindRecord", <<"find-record">>>> >>

\* a draft with no title and no steps: the {} that stands in for a Draft
\* that json.loads rejects
EmptyDraft ==
    [isStr |-> FALSE, form |-> "mapping", title |-> NoneVal, steps |-> << >>]

\* variant without the try: the error of json.loads leaves parse_workflow
LoadDraftUncaught(draft_str) ==
    IF draft_str.isStr /\ draft_str.form = "unparseable"
    THEN [draft_str EXCEPT !.form = "raise"]
    ELSE draft_str

\* lines 1022-1025: form tells whether the Draft is text that json.loads
\* rejects ("unparseable"), or holds a value that is not a mapping
\* ("nonmapping"), or holds a mapping
LoadDraft(draft_str) ==
    IF draft_str.isStr /\ draft_str.form = "unparseable"
    THEN EmptyDraft
    ELSE draft_str

\* lines 1044-1067: the title made from the first step; the texts stand for
\* 当「…」记录变更时, 当「…」新增记录时, 当「…」记录满足条件时,
\* 定时触发 (基于「…」), 按钮触发 (「…」), 未命名工作流
SynthesizedTitle(steps_, wf, tm) ==
    IF steps_ = << >> THEN <<"unnamed-workflow">>
    ELSE LET first_step == steps_[1]
             tid == PyOr(first_step.tableId, first_step.watchedCustomTableId)
             tname == IF Truthy(tid) THEN resolve_table_id(tid, wf, tm)
                      ELSE <<"unknown-table">>
             named == <<LQ>> \o tname \o <<RQ>>
         IN IF first_step.type = "ChangeRecordTrigger"
            THEN <<"when ">> \o named \o <<" changes">>
            ELSE IF first_step.type = "AddRecordTrigger"
            THEN <<"when ">> \o named \o <<" gets a record">>
            ELSE IF first_step.type = "SetRecordTrigger"
            THEN <<"when ">> \o named \o <<" meets the condition">>
            ELSE IF first_step.type = "TimerTrigger"
            THEN <<"timer (on ">> \o named \o <<")">>
            ELSE IF first_step.type = "ButtonTrigger"
            THEN <<"button (">> \o named \o <<")">>
            ELSE DictGet(ACTION_TYPES, first_step.type, <<first_step.type>>)
                 \o <<" (">> \o named \o <<")">>

\* variant that asks the block map before the title of the draft
WorkflowTitleBlockMapFirst(draft, wf_id, bm, wf, tm) ==
    IF bm # << >> /\ Truthy(DictGet(bm, wf_id, NoneVal))
    THEN DictGet(bm, wf_id, NoneVal)
    ELSE IF Truthy(draft.title) THEN draft.title
    ELSE SynthesizedTitle(draft.steps, wf, tm)

\* lines 1036-1067
WorkflowTitle(draft, wf_id, bm, wf, tm) ==
    LET title1 == IF ~Truthy(draft.title) /\ bm # << >>
                  THEN DictGet(bm, wf_id, NoneVal)
                  ELSE draft.title
    IN IF Truthy(title1) THEN title1
       ELSE SynthesizedTitle(draft.steps, wf, tm)

\* lines 1069-1075: the lines before the steps; "enabled" and "disabled" are
\* the literals ✅ 已启用 and ⚪ 已禁用
HeadLines(wf_item, draft, bm, tm) ==
    [title |-> WorkflowTitle(draft, wf_item.id, bm, wf_item.TableMap, tm),
     id |-> wf_item.id,
     status |-> IF wf_item.status = 1 THEN "enabled" ELSE "disabled"]

\* what parse_workflow returns before it reads anything of the draft
NoHead == [title |-> NoneVal, id |-> NoneVal, status |-> "none"]

\* a step of a draft: the step of the sequencing with the table of its payload
DocStep(id, type, startChild, notMeet, tableId, watched) ==
    [id |-> id, type |-> type, startChildStepId |-> startChild,
     meetConditionStepId |-> NoneVal, notMeetConditionStepId |-> notMeet,
     tableId |-> tableId, watchedCustomTableId |-> watched]

\* the step lists of the drafts: none, a trigger, a trigger with a branch and
\* a loop that cite each other, a timer on an unregistered table, a step of
\* an unknown type without table
DocStepLists ==
    LET trigger == DocStep(<<"sA">>, "AddRecordTrigger", NoneVal, NoneVal,
                           <<"tblA">>, NoneVal)
        branch == DocStep(<<"sB">>, "IfElseBranch", NoneVal, <<"sC">>, NoneVal, NoneVal)
        loop == DocStep(<<"sC">>, "Loop", <<"sB">>, NoneVal, NoneVal, NoneVal)
        timer == DocStep(<<"sC">>, "TimerTrigger", NoneVal, NoneVal, NoneVal,
                         <<"tblZ">>)
        other == DocStep(NoneVal, "NewType", NoneVal, NoneVal, NoneVal, NoneVal)
    IN {<< >>, <<trigger>>, <<trigger, branch, loop>>, <<timer, branch>>, <<other>>}

\* the Draft of a workflow: text that does not parse, text that parses to a
\* list, a mapping given as such, text that parses to a mapping
Drafts ==
    {[isStr |-> TRUE, form |-> "unparseable", title |-> NoneVal, steps |-> << >>],
     [isStr |-> TRUE, form |-> "nonmapping", title |-> NoneVal, steps |-> << >>],
     [isStr |-> FALSE, form |-> "mapping", title |-> << >>, steps |-> << >>]}
    \cup {[isStr |-> TRUE, form |-> "mapping", title |-> t, steps |-> l] :
             t \in {NoneVal, <<"T">>}, l \in DocStepLists}

\* workflows: the id, the status, the alias map and the Draft
WfItems ==
    {[id |-> <<"wf1">>, status |-> 1, TableMap |-> << >>, draft |-> d] : d \in Drafts}
    \cup {[id |-> <<"wf2">>, status |-> 0,
           TableMap |-> << <<<<"ref_", "tblA">>,
                             [TableID |-> <<"tblA">>, FieldMap |-> << >>]>> >>,
           draft |-> d] : d \in Drafts}

\* block maps: none, and a name for one of the workflows
BlockMaps == {<< >>, << <<<<"wf1">>, <<"Side">>>> >>}

InitDocument ==
    /\ phase = "done"
    /\ item = NoItem
    /\ table = NoTable
    /\ table_map = << <<<<"tblA">>, <<"A1">>>> >>
    /\ field_map = << <<<<<<"tblA">>, <<"fldX">>>>, <<"P">>>> >>
    /\ option_map = << >>
    /\ seenAuth = [t \in TableIds |-> {}]
    /\ seenMeta = [t \in TableIds |-> {}]
    /\ firstSource = [t \in TableIds |-> "none"]
    /\ lastField = [k \in TableIds \X FieldIds |-> Unseen]
    /\ overwritten = NoneVal
    /\ firstOrder = << >>
    /\ wf_table_map = << >>
    /\ steps = << >>
    /\ step_id_map = << >>
    /\ lines = << >>
    /\ idx = 0
    /\ block_map \in BlockMaps
    /\ document = << >>
    /\ pc = "idle"
    /\ call = [op |-> "none"]

\* variant whose table lookup keeps the name it resolved in the global table
\* map
ParseWorkflowItemMemo(wf_item) ==
    /\ pc = "idle"
    /\ Len(document) < MaxWorkflows
    /\ LET draft == LoadDraft(wf_item.draft)
           tid == IF draft.form = "mapping" /\ draft.steps # << >>
                  THEN PyOr(draft.steps[1].tableId, draft.steps[1].watchedCustomTableId)
                  ELSE NoneVal
       IN /\ call' = [op |-> "parse_workflow", wf_item |-> wf_item,
                      head |-> IF draft.form = "mapping"
                               THEN HeadLines(wf_item, draft, block_map, table_map)
                               ELSE NoHead]
          /\ table_map' = IF Truthy(tid)
                          THEN DictPut(table_map, tid,
                                       resolve_table_id(tid, wf_item.TableMap, table_map))
                          ELSE table_map
          /\ wf_table_map' = IF draft.form = "mapping" THEN wf_item.TableMap
                             ELSE wf_table_map
          /\ steps' = IF draft.form = "mapping" THEN draft.steps ELSE << >>
          /\ step_id_map' = IF draft.form = "mapping" /\ draft.steps # << >>
                            THEN << >> ELSE step_id_map
          /\ lines' = << >>
          /\ idx' = 0
          /\ pc' = IF draft.form = "mapping" /\ draft.steps # << >> THEN "map"
                   ELSE "done"
    /\ UNCHANGED <<phase, item, table, field_map, option_map, history, block_map,
                   document>>

\* generate_document hands the next workflow to parse_workflow, which reads
\* its Draft and renders the lines before the steps
ParseWorkflowItem(wf_item) ==
    /\ pc = "idle"
    /\ Len(document) < MaxWorkflows
    /\ LET draft == LoadDraft(wf_item.draft)
       IN /\ call' = [op |-> "parse_workflow", wf_item |-> wf_item,
                      head |-> IF draft.form = "mapping"
                               THEN HeadLines(wf_item, draft, block_map, table_map)
                               ELSE NoHead]
          /\ wf_table_map' = IF draft.form = "mapping" THEN wf_item.TableMap
                             ELSE wf_table_map
          /\ steps' = IF draft.form = "mapping" THEN draft.steps ELSE << >>
          /\ step_id_map' = IF draft.form = "mapping" /\ draft.steps # << >>
                            THEN << >> ELSE step_id_map
          /\ lines' = << >>
          /\ idx' = 0
          /\ pc' = IF draft.form = "raise" THEN "aborted"
                   ELSE IF draft.form = "mapping" /\ draft.steps # << >> THEN "map"
                   ELSE "done"
    /\ UNCHANGED <<phase, item, table, registry, history, block_map, document>>

\* parse_workflow returns and generate_document extends the document
EmitWorkflow ==
    /\ pc = "done"
    /\ call.op = "parse_workflow"
    /\ document' = Append(document, [wf_item |-> call.wf_item, head |-> call.head,
                                     steps |-> lines])
    /\ pc' = "idle"
    /\ UNCHANGED <<phase, item, table, registry, history, wf_table_map, block_map,
                   steps, step_id_map, lines, idx, call>>

NextDocument ==
    \/ pc = "idle" /\ \E w \in WfItems : ParseWorkflowItem(w)
    \/ MapStep
    \/ RenderStep
    \/ EmitWorkflow

SpecDocument == InitDocument /\ [][NextDocument]_vars

(***************************************************************************)
(* build_name_registry on fragments whose meta value or field definition   *)
(* is no mapping                                                           *)
(***************************************************************************)

\* the 'meta' value of a table structure: a mapping, absent, or another value
MetaKinds == {"mapping", "missing", "other"}

\* table structures of data.tables / data.table with any 'meta' value
RawTables ==
    {[isDict |-> TRUE, meta |-> "mapping", id |-> <<"tblA">>, name |-> <<"M1">>]}
    \cup {[isDict |-> TRUE, meta |-> k, id |-> NoneVal, name |-> NoneVal] :
            k \in MetaKinds \ {"mapping"}}
    \cup {[isDict |-> FALSE, meta |-> "missing", id |-> NoneVal, name |-> NoneVal]}

\* values of schema.tableMap in the scan of ill-formed fragments
RawTInfos == {t \in TInfos : t.name \in {<<"A1">>, NoneVal}}

\* values of a table's fieldMap: a mapping or another value
RawFieldDefs ==
    {[isDict |-> TRUE, name |-> n, options |-> << >>] : n \in {<<"P">>, NoneVal}}
    \cup {[isDict |-> FALSE, name |-> NoneVal, options |-> << >>]}

\* `table.get('meta', {}).get('id')`: .get of a value that is no mapping raises
MetaGetRaises(t) == t.isDict /\ t.meta = "other"

\* `field_def.get('name')`: .get of a value that is no mapping raises
FieldGetRaises(field_def) == ~field_def.isDict

\* the exception leaves build_name_registry: nothing is returned
RaiseAttributeError ==
    /\ phase' = "raised"
    /\ UNCHANGED <<item, table, registry, history, wf_table_map, block_map, document,
                   workflow, call>>

\* `for table in tables` on any table structure
ScanRawTable(t) ==
    IF MetaGetRaises(t)
    THEN phase \in {"tableMap", "tables"} /\ item.data /\ RaiseAttributeError
    ELSE ScanTable([isDict |-> t.isDict, id |-> t.id, name |-> t.name])

\* the fieldMap loop on any field definition
ScanRawField(field_id, field_def) ==
    IF FieldGetRaises(field_def)
    THEN /\ phase = "tables"
         /\ table.isDict /\ Truthy(table.id)
         /\ field_id \notin table.fields
         /\ RaiseAttributeError
    ELSE ScanField(field_id, [name |-> field_def.name, options |-> field_def.options])

\* the scan of fragments with missing or ill-typed sub-sections
NextRaw ==
    \/ \E k \in ItemKinds : NextItem(k[1], k[2])
    \/ \E tinfo \in RawTInfos : ScanTableMapEntry(<<"tblA">>, tinfo)
    \/ \E t \in RawTables : ScanRawTable(t)
    \/ \E fdef \in RawFieldDefs : ScanRawField(<<"fldX">>, fdef)
    \/ Return

SpecRaw == InitBuild /\ [][NextRaw]_vars

(***************************************************************************)
(* completeness_checker: the marker patterns                               *)
(***************************************************************************)

\* the texts the first two id_patterns match before the colon, one atom each:
\* [未知字段: [未知表: [未知选项: [未知引用: and [已删除的字段: [已删除的表:
MarkerOpeners ==
    {"[unknown-field:", "[unknown-table:", "[unknown-option:", "[unknown-ref:",
     "[deleted-field:", "[deleted-table:"}

\* the group `([^\]]+)\]` captures from position i + 1: the atoms up to the
\* first closing bracket, at least one
CaptureFrom(text, i) ==
    LET k == CloseFrom(text, i + 1)
    IN IF k > i + 1 /\ k <= Len(text) THEN SubSeq(text, i + 1, k - 1) ELSE NoneVal

\* re.findall of the two marker patterns: the captured identifiers
id_patterns(text) ==
    {CaptureFrom(text, i) :
        i \in {j \in 1..Len(text) : text[j] \in MarkerOpeners}} \ {NoneVal}

(***************************************************************************)
(* extract_filter_conditions (relationship map) and                        *)
(* extract_filter_conditions_from_formula (field table)                    *)
(*                                                                         *)
(* The atoms of an expression with a filter: ".FILTER(", ")",              *)
(* "CurrentValue.", the comparison signs "=" and "!=", the conjunction     *)
(* "&&", literals, and the atoms of translate_formula.  Blanks are not     *)
(* written, so \s* matches nothing and strip() changes nothing.            *)
(***************************************************************************)

\* the characters the class [^&\)] leaves out, as atoms
Stops == {"&&", ")"}

\* the literals "= " and "≠ " between the two sides of a clause, " 且 "
\* between clauses, and the label "筛选条件: " of the relationship map
EqMark == "= "
NeqMark == "=/= "
Conj == <<" and ">>
FilterLabel == <<"filter: ">>

\* the mark a clause gets for a comparison sign
MarkOf(sign) == IF sign = "=" THEN EqMark ELSE NeqMark

\* the first ")" at or after k, 0 when there is none
ParenFrom(s, k) ==
    IF \E j \in k..Len(s) : s[j] = ")"
    THEN CHOOSE j \in k..Len(s) : s[j] = ")" /\ \A h \in k..(j - 1) : s[h] # ")"
    ELSE 0

\* re.findall(r'\.FILTER\((.*?)\)', text, re.DOTALL) from position i
RECURSIVE filter_matches(_, _)
filter_matches(s, i) ==
    IF i > Len(s) THEN << >>
    ELSE IF s[i] = ".FILTER(" /\ ParenFrom(s, i + 1) # 0
    THEN <<SubSeq(s, i + 1, ParenFrom(s, i + 1) - 1)>>
         \o filter_matches(s, ParenFrom(s, i + 1) + 1)
    ELSE filter_matches(s, i + 1)

\* the greedy group ([^&\)]+) from position k: the last position of the run,
\* k - 1 when the run is empty
RunEnd(s, k) ==
    IF k > Len(s) \/ s[k] \in Stops THEN k - 1
    ELSE CHOOSE e \in k..Len(s) :
            /\ \A h \in k..e : s[h] \notin Stops
            /\ (e = Len(s) \/ s[e + 1] \in Stops)

\* the first closing quotation mark at or after k, 0 when there is none
QuoteFrom(s, k) ==
    IF \E j \in k..Len(s) : s[j] = RQ
    THEN CHOOSE j \in k..Len(s) : s[j] = RQ /\ \A h \in k..(j - 1) : s[h] # RQ
    ELSE 0

\* a match of CurrentValue\.「([^」]+)」\s*<sign>\s*([^&\)]+) that starts at i:
\* the position of the closing quotation mark, 0 when there is no match
TranslatedMatch(s, i, sign) ==
    LET j == QuoteFrom(s, i + 2)
    IN IF /\ i + 1 <= Len(s)
          /\ s[i] = "CurrentValue."
          /\ s[i + 1] = LQ
          /\ j > i + 2
          /\ j + 1 <= Len(s)
          /\ s[j + 1] = sign
          /\ RunEnd(s, j + 2) >= j + 2
       THEN j ELSE 0

\* re.findall of the pattern on translated text, from position i: the clauses
\* 「left」= right
RECURSIVE TranslatedClauses(_, _, _)
TranslatedClauses(s, i, sign) ==
    IF i > Len(s) THEN << >>
    ELSE IF TranslatedMatch(s, i, sign) # 0
    THEN LET j == TranslatedMatch(s, i, sign)
             e == RunEnd(s, j + 2)
         IN << <<LQ>> \o SubSeq(s, i + 2, j - 1) \o <<RQ, MarkOf(sign)>>
               \o SubSeq(s, j + 2, e) >>
            \o TranslatedClauses(s, e + 1, sign)
    ELSE TranslatedClauses(s, i + 1, sign)

\* a match of CurrentValue\.\$(?:column|field)\[(.*?)\]\s*<sign>\s*([^&\)]+)
\* that starts at i: the position of the closing bracket the lazy group ends
\* at (the first one the rest of the pattern matches after), 0 without match
RawMatch(s, i, sign) ==
    LET Ends == {j \in (i + 2)..(Len(s) - 1) :
                    s[j] = "]" /\ s[j + 1] = sign /\ RunEnd(s, j + 2) >= j + 2}
    IN IF /\ i + 1 <= Len(s)
          /\ s[i] = "CurrentValue."
          /\ s[i + 1] \in FieldOpeners
          /\ Ends # {}
       THEN CHOOSE j \in Ends : \A h \in Ends : j <= h
       ELSE 0

\* lines 263-268: the name of the left field, the identifier when no table
\* registers it
LeftName(left_fid, current_table_id, fm) ==
    LET left_fname == DictGet(fm, <<current_table_id, left_fid>>, left_fid)
    IN IF left_fname = left_fid /\ FirstMatch(fm, left_fid) # NoneVal
       THEN FirstMatch(fm, left_fid)
       ELSE left_fname

\* re.findall of the pattern on the raw text, from position i: the clauses
\* with the left field named and the right side translated
RECURSIVE RawClauses(_, _, _, _, _, _)
RawClauses(s, i, sign, current_table_id, tm, fm) ==
    IF i > Len(s) THEN << >>
    ELSE IF RawMatch(s, i, sign) # 0
    THEN LET j == RawMatch(s, i, sign)
             e == RunEnd(s, j + 2)
         IN << <<LQ>> \o LeftName(SubSeq(s, i + 2, j - 1), current_table_id, fm)
               \o <<RQ, MarkOf(sign)>>
               \o translate_formula(SubSeq(s, j + 2, e), current_table_id, tm, fm) >>
            \o RawClauses(s, e + 1, sign, current_table_id, tm, fm)
    ELSE RawClauses(s, i + 1, sign, current_table_id, tm, fm)

\* the clauses of every filter of a translated text: for each filter the
\* equalities, then the inequalities
RECURSIVE ClausesOfTranslated(_)
ClausesOfTranslated(filters) ==
    IF filters = << >> THEN << >>
    ELSE TranslatedClauses(filters[1], 1, "=") \o TranslatedClauses(filters[1], 1, "!=")
         \o ClausesOfTranslated(Tail(filters))

\* the clauses of every filter of a raw text
RECURSIVE ClausesOfRaw(_, _, _, _)
ClausesOfRaw(filters, current_table_id, tm, fm) ==
    IF filters = << >> THEN << >>
    ELSE RawClauses(filters[1], 1, "=", current_table_id, tm, fm)
         \o RawClauses(filters[1], 1, "!=", current_table_id, tm, fm)
         \o ClausesOfRaw(Tail(filters), current_table_id, tm, fm)

\* relationship map
extract_filter_conditions(formula, current_table_id, tm, fm) ==
    IF ~Truthy(formula) THEN << >>
    ELSE LET translated_formula == translate_formula_rel(formula, current_table_id, tm, fm)
             conditions == ClausesOfTranslated(filter_matches(translated_formula, 1))
         IN IF conditions # << >> THEN FilterLabel \o Join(conditions, Conj) ELSE << >>

\* field table
extract_filter_conditions_from_formula(formula, current_table_id, tm, fm) ==
    IF ~Truthy(formula) THEN << >>
    ELSE Join(ClausesOfRaw(filter_matches(formula, 1), current_table_id, tm, fm), Conj)

\* comparisons of a filter: the current record's field, a sign, a right side
FilterClauses ==
    {<<"CurrentValue.", o, f, "]", sign>> \o r :
        o \in FieldOpeners, f \in {"fldX", "fldZ"}, sign \in {"=", "!="},
        r \in {<<"1">>, <<Prefix, "$table[", "tblA", "]", ".", "$field[", "fldX", "]">>}}

\* the expressions of a field with a filter: no expression, a reference
\* without filter, a table filtered by one or by two comparisons
FilterExprs ==
    {<< >>, <<Prefix, "$table[", "tblA", "]", ".", "$column[", "fldX", "]">>}
    \cup {<<Prefix, "$table[", "tblA", "]", ".FILTER(">> \o c \o <<")">> :
             c \in FilterClauses}
    \cup {<<Prefix, "$table[", "tblA", "]", ".FILTER(">> \o c \o <<"&&">> \o d \o <<")">> :
             c \in FilterClauses, d \in FilterClauses}

\* the relationship map summarises the filter of a field of current_table_id
ExtractFilterConditions(formula, current_table_id) ==
    /\ call' = [op |-> "extract_filter_conditions", formula |-> formula,
                current_table_id |-> current_table_id,
                result |-> extract_filter_conditions(formula, current_table_id,
                                                     table_map, field_map)]
    /\ UNCHANGED <<phase, item, table, registry, history, wf_table_map, block_map,
                   document, workflow>>

\* the field table summarises the filter of a field of current_table_id
ExtractFilterConditionsFromFormula(formula, current_table_id) ==
    /\ call' = [op |-> "extract_filter_conditions_from_formula", formula |-> formula,
                current_table_id |-> current_table_id,
                result |-> extract_filter_conditions_from_formula(
                               formula, current_table_id, table_map, field_map)]
    /\ UNCHANGED <<phase, item, table, registry, history, wf_table_map, block_map,
                   document, workflow>>

NextFilter ==
    \/ call.op = "none" /\ \E e \in FilterExprs : ExtractFilterConditions(e, <<"tblA">>)
    \/ call.op = "none" /\ \E e \in FilterExprs :
                              ExtractFilterConditionsFromFormula(e, <<"tblA">>)

SpecFilter == InitFormula /\ [][NextFilter]_vars

(***************************************************************************)
(* parse_step: the keys a renderer reads                                   *)
(***************************************************************************)

\* the keys of step_data that the renderer of a step type reads with
\* step_data.get; 'tableId' is read for every type
ReadKeys ==
    << <<"ChangeRecordTrigger", {<<"fields">>, <<"triggerControlList">>}>>,
       <<"AddRecordTrigger", {<<"triggerControlList">>, <<"watchedFieldId">>}>>,
       <<"SetRecordTrigger", {<<"fields">>, <<"fieldIds">>}>>,
       <<"TimerTrigger", {<<"rule">>, <<"startTime">>}>>,
       <<"FindRecordAction", {<<"recordInfo">>, <<"fieldIds">>, <<"recordType">>,
                              <<"shouldProceedWithNoResults">>}>>,
       <<"FindRecord", {<<"recordInfo">>, <<"fieldIds">>, <<"recordType">>,
                        <<"shouldProceedWithNoResults">>}>>,
       <<"ButtonTrigger", {<<"buttonType">>}>>,
       <<"AddRecordAction", {<<"values">>}>>,
       <<"AddRecord", {<<"values">>}>>,
       <<"SetRecordAction", {<<"recordType">>, <<"recordInfo">>, <<"values">>}>>,
       <<"UpdateRecordAction", {<<"recordType">>, <<"recordInfo">>, <<"values">>}>>,
       <<"UpdateRecord", {<<"recordType">>, <<"recordInfo">>, <<"values">>}>>,
       <<"Loop", {<<"loopType">>, <<"loopData">>, <<"maxLoopTimes">>,
                  <<"startChildStepId">>}>>,
       <<"IfElseBranch", {<<"condition">>, <<"meetConditionStepId">>,
                          <<"notMeetConditionStepId">>}>>,
       <<"CustomAction", {<<"packId">>, <<"formData">>, <<"version">>}>> >>

\* the keys the renderers of a step of this type read
KeysRead(step_type) == {<<"tableId">>} \cup DictGet(ReadKeys, step_type, {})

(***************************************************************************)
(* format_value called on value trees                                      *)
(***************************************************************************)

\* levels of lists and mappings inside the outermost value
MaxNesting == 2

\* a run of n characters without a line break
Run(n) == [i \in 1..n |-> "a"]

\* the options of the scanned fields: none, a named one, and one whose
\* definition has an id and no name
FormatOptionLists ==
    {<< >>,
     <<[id |-> <<"optO1">>, name |-> <<"Red">>]>>,
     <<[id |-> <<"optO1">>, name |-> <<"Red">>],
       [id |-> <<"optO2">>, name |-> NoneVal]>>}

\* the option registries build_name_registry returns for them
FormatOptionMaps == {RegisterOptions(<< >>, o) : o \in FormatOptionLists}

\* values without elements
FormatLeaves ==
    {VNone, VStr(<< >>), VStr(<<"optO1">>), VStr(<<"optO2">>), VStr(Run(49)),
     VStr(Run(50)), VStr(<<"a", "\n", "b">>), VOther(<<"7">>), VList(<< >>),
     VRef([NoRef EXCEPT !.tagType = <<"step">>, !.stepNum = <<"1">>])}

\* second elements of the two-element lists
FormatSeconds == {VStr(<<"b">>), VStr(Run(50))}

\* value trees of at most n levels
RECURSIVE FormatValues(_)
FormatValues(n) ==
    IF n = 0 THEN FormatLeaves
    ELSE LET inner == FormatValues(n - 1)
         IN inner
            \cup {VList(<<a>>) : a \in inner}
            \cup {VList(<<a, b>>) : a \in inner, b \in FormatSeconds}
            \cup {VDict(<< <<<<"k">>, a>>, <<<<"m">>, VStr(<<"b">>)>>,
                            <<<<"n">>, VNone>> >>) : a \in inner}

\* depths of the outermost call
FormatDepths == {0, 1}

\* the largest `depth` any call of the recursion receives
RECURSIVE DepthReached(_, _)
DepthReached(value, depth) ==
    IF value.kind \in {"list", "dict"} /\ value.items # << >>
    THEN LET sub == {DepthReached(IF value.kind = "list" THEN value.items[k]
                                  ELSE value.items[k][2], depth + 1) :
                        k \in 1..Len(value.items)}
         IN CHOOSE d \in sub : \A e \in sub : e <= d
    ELSE depth

InitFormat ==
    /\ phase = "done"
    /\ item = NoItem
    /\ table = NoTable
    /\ table_map = << >>
    /\ field_map = << >>
    /\ option_map \in FormatOptionMaps
    /\ seenAuth = [t \in TableIds |-> {}]
    /\ seenMeta = [t \in TableIds |-> {}]
    /\ firstSource = [t \in TableIds |-> "none"]
    /\ lastField = [k \in TableIds \X FieldIds |-> Unseen]
    /\ overwritten = NoneVal
    /\ firstOrder = << >>
    /\ wf_table_map = << >>
    /\ steps = << >>
    /\ step_id_map = << >>
    /\ lines = << >>
    /\ idx = 0
    /\ block_map = << >>
    /\ document = << >>
    /\ pc = "format"
    /\ call = [op |-> "none"]

\* format_value(value, option_map, depth)
FormatValue(value, depth) ==
    /\ pc = "format"
    /\ call.op = "none"
    /\ call' = [op |-> "format_value", value |-> value, depth |-> depth,
                result |-> format_value(value, option_map, depth, wf_table_map,
                                        field_map),
                reached |-> DepthReached(value, depth)]
    /\ UNCHANGED <<phase, item, table, registry, history, wf_table_map, block_map,
                   document, workflow>>

\* one value is formatted
NextFormat ==
    call.op = "none"
    /\ \E v \in FormatValues(MaxNesting), d \in FormatDepths : FormatValue(v, d)

SpecFormat == InitFormat /\ [][NextFormat]_vars

(***************************************************************************)
(* build_name_registry on whole snapshots: the three copies                *)
(***************************************************************************)

\* fragments of a snapshot
MaxFragments == 2

\* table structures with their fieldMap, and a value that is no mapping
SnapTables ==
    {[isDict |-> TRUE, id |-> <<"tblA">>, name |-> <<"M1">>,
      fieldMap |-> << <<<<"fldX">>, [name |-> <<"P">>, options |-> << >>]>> >>],
     [isDict |-> TRUE, id |-> <<"tblB">>, name |-> NoneVal,
      fieldMap |-> << <<<<"fldY">>, [name |-> NoneVal, options |-> << >>]>>,
                      <<<<"fldX">>, [name |-> <<"Q">>,
                                     options |-> <<[id |-> <<"optR">>,
                                                    name |-> <<"Red">>]>>]>> >>],
     [isDict |-> FALSE, id |-> NoneVal, name |-> NoneVal, fieldMap |-> << >>]}

\* the table structure that heads data.tables
SnapFirstTable == CHOOSE t \in SnapTables : t.id = <<"tblA">>

\* the table structure that follows it
SnapSecondTable == CHOOSE t \in SnapTables : t.id = <<"tblB">>

\* values of schema.tableMap, in the order of its keys
SnapTableMaps ==
    {<< >>,
     << <<<<"tblB">>, [isDict |-> TRUE, name |-> << >>]>>,
        <<<<"tblA">>, [isDict |-> TRUE, name |-> <<"A1">>]>> >>}

\* a fragment without 'schema'
NoSchema ==
    [hasSchema |-> FALSE, tableMap |-> << >>, hasData |-> FALSE, hasTables |-> FALSE,
     tables |-> << >>, hasTable |-> FALSE, table |-> SnapFirstTable]

\* fragments: without 'schema', without 'data', and with a data section that
\* has a 'tables' list, a single 'table', both or neither
Fragments ==
    {NoSchema}
    \cup {[NoSchema EXCEPT !.hasSchema = TRUE, !.tableMap = m] : m \in SnapTableMaps}
    \cup {[hasSchema |-> TRUE, tableMap |-> m, hasData |-> TRUE,
           hasTables |-> ts.has, tables |-> ts.list,
           hasTable |-> t.has, table |-> t.val] :
             m \in SnapTableMaps,
             ts \in {[has |-> FALSE, list |-> << >>],
                     [has |-> TRUE, list |-> <<SnapFirstTable>>],
                     [has |-> TRUE, list |-> <<SnapFirstTable, SnapSecondTable>>]},
             t \in {[has |-> FALSE, val |-> SnapFirstTable]}
                   \cup {[has |-> TRUE, val |-> u] : u \in SnapTables \ {SnapFirstTable}}}

\* snapshots of at most n fragments
RECURSIVE SnapshotsUpTo(_)
SnapshotsUpTo(n) ==
    IF n = 0 THEN {<< >>}
    ELSE LET shorter == SnapshotsUpTo(n - 1)
         IN shorter \cup {Append(s, f) : s \in shorter, f \in Fragments}

\* the scripts that carry a copy: automation map, field table, relationship map
Copies == {"A", "Q", "R"}

\* the copy of the automation map; the record carries the snapshot as the
\* call leaves it
build_name_registry_A(snapshot) ==
    LET RECURSIVE ScanMap(_, _)
        ScanMap(tm, entries) ==
            IF entries = << >> THEN tm
            ELSE ScanMap(RegisterAuthoritative(tm, Head(entries)[1], Head(entries)[2]),
                         Tail(entries))
        RECURSIVE ScanFields(_, _, _)
        ScanFields(acc, table_id, fieldMap) ==
            IF fieldMap = << >> THEN acc
            ELSE ScanFields(
                     [acc EXCEPT
                        !.field_map = RegisterField(@, table_id, Head(fieldMap)[1],
                                                    Head(fieldMap)[2]),
                        !.option_map = RegisterOptions(@, Head(fieldMap)[2].options)],
                     table_id, Tail(fieldMap))
        RECURSIVE ScanTables(_, _)
        ScanTables(acc, tables) ==
            IF tables = << >> THEN acc
            ELSE LET t == Head(tables)
                     named == [acc EXCEPT !.table_map = RegisterInferred(@, t)]
                 IN IF ~t.isDict THEN ScanTables(acc, Tail(tables))
                    ELSE ScanTables(IF Truthy(t.id)
                                    THEN ScanFields(named, t.id, t.fieldMap)
                                    ELSE named,
                                    Tail(tables))
        RECURSIVE ScanItems(_, _)
        ScanItems(acc, i) ==
            IF i > Len(snapshot) THEN acc
            ELSE LET it == snapshot[i]
                     mapped == [acc EXCEPT !.table_map = ScanMap(@, it.tableMap)]
                     tables == IF it.hasTable THEN Append(it.tables, it.table)
                               ELSE it.tables
                     \* `tables` is the list of the snapshot when 'tables' is a key
                     appended == IF it.hasTables /\ it.hasTable
                                 THEN [mapped EXCEPT !.snapshot[i].tables = tables]
                                 ELSE mapped
                 IN IF ~it.hasSchema THEN ScanItems(acc, i + 1)
                    ELSE IF ~it.hasData THEN ScanItems(mapped, i + 1)
                    ELSE ScanItems(ScanTables(appended, tables), i + 1)
    IN ScanItems([table_map |-> << >>, field_map |-> << >>, option_map |-> << >>,
                  all_tables |-> << >>, snapshot |-> snapshot], 1)

\* variant of the field table's field name: the name as it is stored
field_name_Q_stored(field_def, field_id) == field_def.name

\* the field table: `field_name = field_def.get('name') or field_id`
field_name_Q(field_def, field_id) == PyOr(field_def.name, field_id)

\* the copy of the field table
build_name_registry_Q(snapshot) ==
    LET RECURSIVE ScanMap(_, _)
        ScanMap(tm, entries) ==
            IF entries = << >> THEN tm
            ELSE LET tid == Head(entries)[1]
                     tinfo == Head(entries)[2]
                 IN ScanMap(IF tinfo.isDict /\ Truthy(tinfo.name)
                            THEN DictPut(tm, tid, tinfo.name) ELSE tm,
                            Tail(entries))
        RECURSIVE ScanFields(_, _, _)
        ScanFields(fm, table_id, fieldMap) ==
            IF fieldMap = << >> THEN fm
            ELSE ScanFields(DictPut(fm, <<table_id, Head(fieldMap)[1]>>,
                                    field_name_Q(Head(fieldMap)[2], Head(fieldMap)[1])),
                            table_id, Tail(fieldMap))
        RECURSIVE ScanTables(_, _)
        ScanTables(acc, tables) ==
            IF tables = << >> THEN acc
            ELSE LET t == Head(tables)
                     table_id == t.id
                     table_name == t.name
                     listed == [acc EXCEPT !.all_tables = Append(@, t)]
                     named == IF Truthy(table_id) /\ ~DictHas(acc.table_map, table_id)
                              THEN [listed EXCEPT !.table_map =
                                       DictPut(@, table_id, PyOr(table_name, table_id))]
                              ELSE listed
                 IN IF ~t.isDict THEN ScanTables(acc, Tail(tables))
                    ELSE ScanTables(IF Truthy(table_id)
                                    THEN [named EXCEPT !.field_map =
                                             ScanFields(@, table_id, t.fieldMap)]
                                    ELSE named,
                                    Tail(tables))
        RECURSIVE ScanItems(_, _)
        ScanItems(acc, i) ==
            IF i > Len(snapshot) THEN acc
            ELSE LET it == snapshot[i]
                     mapped == [acc EXCEPT !.table_map = ScanMap(@, it.tableMap)]
                     tables == IF it.hasTable THEN Append(it.tables, it.table)
                               ELSE it.tables
                     appended == IF it.hasTables /\ it.hasTable
                                 THEN [mapped EXCEPT !.snapshot[i].tables = tables]
                                 ELSE mapped
                 IN IF ~it.hasSchema THEN ScanItems(acc, i + 1)
                    ELSE IF ~it.hasData THEN ScanItems(mapped, i + 1)
                    ELSE ScanItems(ScanTables(appended, tables), i + 1)
    IN ScanItems([table_map |-> << >>, field_map |-> << >>, option_map |-> << >>,
                  all_tables |-> << >>, snapshot |-> snapshot], 1)

\* the copy of the relationship map
build_name_registry_R(snapshot) ==
    LET RECURSIVE ScanMap(_, _)
        ScanMap(tm, entries) ==
            IF entries = << >> THEN tm
            ELSE LET tid == Head(entries)[1]
                     tinfo == Head(entries)[2]
                 IN ScanMap(IF tinfo.isDict /\ Truthy(tinfo.name)
                            THEN DictPut(tm, tid, tinfo.name) ELSE tm,
                            Tail(entries))
        RECURSIVE ScanFields(_, _, _)
        ScanFields(fm, table_id, fieldMap) ==
            IF fieldMap = << >> THEN fm
            ELSE LET field_id == Head(fieldMap)[1]
                     field_name == PyOr(Head(fieldMap)[2].name, field_id)
                 IN ScanFields(DictPut(fm, <<table_id, field_id>>, field_name),
                               table_id, Tail(fieldMap))
        RECURSIVE ScanTables(_, _)
        ScanTables(acc, tables) ==
            IF tables = << >> THEN acc
            ELSE LET t == Head(tables)
                     table_id == t.id
                     table_name == t.name
                     listed == [acc EXCEPT !.all_tables = Append(@, t)]
                     named == IF Truthy(table_id) /\ ~DictHas(acc.table_map, table_id)
                              THEN [listed EXCEPT !.table_map =
                                       DictPut(@, table_id, PyOr(table_name, table_id))]
                              ELSE listed
                 IN IF ~t.isDict THEN ScanTables(acc, Tail(tables))
                    ELSE ScanTables(IF Truthy(table_id)
                                    THEN [named EXCEPT !.field_map =
                                             ScanFields(@, table_id, t.fieldMap)]
                                    ELSE named,
                                    Tail(tables))
        RECURSIVE ScanItems(_, _)
        ScanItems(acc, i) ==
            IF i > Len(snapshot) THEN acc
            ELSE LET it == snapshot[i]
                     mapped == [acc EXCEPT !.table_map = ScanMap(@, it.tableMap)]
                     tables == IF it.hasTable THEN Append(it.tables, it.table)
                               ELSE it.tables
                     appended == IF it.hasTables /\ it.hasTable
                                 THEN [mapped EXCEPT !.snapshot[i].tables = tables]
                                 ELSE mapped
                 IN IF ~it.hasSchema THEN ScanItems(acc, i + 1)
                    ELSE IF ~it.hasData THEN ScanItems(mapped, i + 1)
                    ELSE ScanItems(ScanTables(appended, tables), i + 1)
    IN ScanItems([table_map |-> << >>, field_map |-> << >>, option_map |-> << >>,
                  all_tables |-> << >>, snapshot |-> snapshot], 1)

\* the copy a script calls; the automation map returns no table list and the
\* other two no option registry: that component stays empty
build_name_registry(copy, snapshot) ==
    IF copy = "A" THEN build_name_registry_A(snapshot)
    ELSE IF copy = "Q" THEN build_name_registry_Q(snapshot)
    ELSE build_name_registry_R(snapshot)

InitSnapshot ==
    /\ phase = "start"
    /\ item = NoItem
    /\ table = NoTable
    /\ table_map = << >>
    /\ field_map = << >>
    /\ option_map = << >>
    /\ seenAuth = [t \in TableIds |-> {}]
    /\ seenMeta = [t \in TableIds |-> {}]
    /\ firstSource = [t \in TableIds |-> "none"]
    /\ lastField = [k \in TableIds \X FieldIds |-> Unseen]
    /\ overwritten = NoneVal
    /\ firstOrder = << >>
    /\ wf_table_map = << >>
    /\ steps = << >>
    /\ step_id_map = << >>
    /\ lines = << >>
    /\ idx = 0
    /\ block_map = << >>
    /\ document = << >>
    /\ pc = "build"
    /\ call = [op |-> "none"]

\* a script builds its registry from a snapshot
BuildRegistry(copy, snapshot) ==
    /\ pc = "build"
    /\ call.op = "none"
    /\ LET r == build_name_registry(copy, snapshot)
       IN /\ call' = [op |-> "build_name_registry", copy |-> copy,
                      input |-> snapshot, builds |-> 1, first |-> r, result |-> r]
          /\ table_map' = r.table_map
          /\ field_map' = r.field_map
          /\ option_map' = r.option_map
    /\ phase' = "done"
    /\ UNCHANGED <<item, table, history, wf_table_map, block_map, document, workflow>>

\* the same script builds again from the snapshot as the first build left it
BuildAgain ==
    /\ pc = "build"
    /\ call.op = "build_name_registry"
    /\ call.builds = 1
    /\ LET r == build_name_registry(call.copy, call.result.snapshot)
       IN /\ call' = [call EXCEPT !.builds = 2, !.result = r]
          /\ table_map' = r.table_map
          /\ field_map' = r.field_map
          /\ option_map' = r.option_map
    /\ UNCHANGED <<phase, item, table, history, wf_table_map, block_map, document,
                   workflow>>

NextSnapshot ==
    \/ call.op = "none"
       /\ \E c \in Copies, s \in SnapshotsUpTo(MaxFragments) \ {<< >>} :
              BuildRegistry(c, s)
    \/ BuildAgain

SpecSnapshot == InitSnapshot /\ [][NextSnapshot]_vars

(***************************************************************************)
(* The condition renderers on one condition                                *)
(***************************************************************************)

\* operators of a rendered condition: the two spellings of the two
\* emptiness operators, and an operator with a value
RenderedOperators == {"is_empty", "isEmpty", "is_not_empty", "isNotEmpty", "is"}

\* values of a condition: None, a text, the empty text, an option id, an
\* empty list, a list with an option id
ConditionValues ==
    {VNone, VStr(<<"v">>), VStr(<< >>), VStr(<<"optO1">>), VList(<< >>),
     VList(<<VStr(<<"optO1">>), VStr(<<"v">>)>>)}

\* field ids of a condition: registered, not registered, absent
ConditionFieldIds == {<<"fldX">>, <<"fldZ">>, << >>}

\* `OPERATORS.get(operator, operator)`
OperatorName(operator) ==
    IF DictHas(OPERATORS, operator) THEN DictGet(OPERATORS, operator, << >>)
    ELSE <<operator>>

\* `bool(value)` of a condition value
TruthyValue(value) ==
    (value.kind = "str" /\ value.text # << >>)
    \/ (value.kind = "list" /\ value.items # << >>)
    \/ value.kind \in {"dict", "ref", "other"}

\* `str(v)` of a text or of None
StrValue(v) == IF v.kind = "none" THEN <<"None">> ELSE v.text

\* the option ids of a list value replaced by their names, the rest as text
TranslatedVals(value, om) ==
    [k \in 1..Len(value.items) |->
        LET v == value.items[k]
        IN IF v.kind = "str" /\ v.text # << >> /\ Head(v.text) \in OptAtoms
           THEN DictGet(om, v.text, v.text)
           ELSE StrValue(v)]

\* parse_condition on a mapping without matchValue
parse_condition(condition, om, wf, fm) ==
    LET value == IF TruthyValue(condition.value) THEN condition.value ELSE VNone
        field_name == resolve_field_id(condition.fieldId, wf, fm)
        op_name == OperatorName(condition.operator)
        value_str == format_value(value, om, 0, wf, fm)
    IN IF condition.operator \in {"is_empty", "is_not_empty"}
       THEN <<LQ>> \o field_name \o <<RQ>> \o op_name
       ELSE <<LQ>> \o field_name \o <<RQ>> \o op_name
            \o <<" ", Quote>> \o StrOf(value_str) \o <<Quote>>

\* parse_trigger_filter_condition: one condition that is not a group
TriggerFilterCondition(cond, om, wf, fm) ==
    LET field_name == resolve_field_id(cond.fieldId, wf, fm)
        op_name == OperatorName(cond.operator)
        value_str == IF cond.value.kind = "list"
                     THEN IF cond.value.items # << >>
                          THEN Join(TranslatedVals(cond.value, om), <<", ">>)
                          ELSE <<"[empty]">>
                     ELSE IF TruthyValue(cond.value) THEN StrValue(cond.value)
                     ELSE <<"[empty]">>
    IN IF cond.operator \in {"isEmpty", "isNotEmpty", "is_empty", "is_not_empty"}
       THEN <<LQ>> \o field_name \o <<RQ>> \o op_name
       ELSE <<LQ>> \o field_name \o <<RQ>> \o op_name
            \o <<" ", Quote>> \o value_str \o <<Quote>>

\* parse_step, ChangeRecordTrigger: one entry of `fields`
TriggerFieldCondition(f, om, wf, fm) ==
    LET fname == resolve_field_id(f.fieldId, wf, fm)
        op_name == OperatorName(f.operator)
        joined == IF f.value.kind = "list"
                  THEN Join(TranslatedVals(f.value, om), <<", ">>)
                  ELSE IF f.value.kind = "str" /\ f.value.text # << >>
                          /\ Head(f.value.text) \in OptAtoms
                  THEN DictGet(om, f.value.text, f.value.text)
                  ELSE StrValue(f.value)
        val_str == IF joined = << >> THEN <<"[empty-value]">> ELSE joined
    IN IF f.operator \in {"isEmpty", "isNotEmpty"}
       THEN <<LQ>> \o fname \o <<RQ>> \o op_name
       ELSE <<LQ>> \o fname \o <<RQ>> \o op_name
            \o <<" ", Quote>> \o val_str \o <<Quote>>

\* conditions of a branch with these operators
RenderedBranchConditions ==
    {[isGroup |-> FALSE, leftValue |-> l, operator |-> o, rightValue |-> r] :
        l \in {ValueRef("str", <<"txt">>, "", "", << >>),
               ValueRef("dict", << >>, "", "", << <<"fldX">> >>)},
        o \in RenderedOperators,
        r \in {[isList |-> TRUE, items |-> << >>, text |-> NoneVal],
               [isList |-> FALSE, items |-> << >>, text |-> <<"optO1">>]}}

InitCondition ==
    /\ phase = "done"
    /\ item = NoItem
    /\ table = NoTable
    /\ table_map = << >>
    /\ field_map \in BranchFieldMaps
    /\ option_map \in BranchOptionMaps
    /\ seenAuth = [t \in TableIds |-> {}]
    /\ seenMeta = [t \in TableIds |-> {}]
    /\ firstSource = [t \in TableIds |-> "none"]
    /\ lastField = [k \in TableIds \X FieldIds |-> Unseen]
    /\ overwritten = NoneVal
    /\ firstOrder = << >>
    /\ wf_table_map = << >>
    /\ steps = << >>
    /\ step_id_map = << >>
    /\ lines = << >>
    /\ idx = 0
    /\ block_map = << >>
    /\ document = << >>
    /\ pc = "condition"
    /\ call = [op |-> "none"]

\* the condition a renderer returned for an operator
Rendered(renderer, operator, result) ==
    /\ pc = "condition"
    /\ call.op = "none"
    /\ call' = [op |-> "condition", renderer |-> renderer, operator |-> operator,
                result |-> result]
    /\ UNCHANGED <<phase, item, table, registry, history, wf_table_map, block_map,
                   document, workflow>>

\* parse_condition renders a condition
RenderCondition(condition) ==
    Rendered("parse_condition", condition.operator,
             parse_condition(condition, option_map, wf_table_map, field_map))

\* parse_trigger_filter_condition renders a group of one condition
RenderTriggerFilter(cond) ==
    Rendered("parse_trigger_filter_condition", cond.operator,
             TriggerFilterCondition(cond, option_map, wf_table_map, field_map))

\* parse_step renders the one field condition of a ChangeRecordTrigger
RenderTriggerField(f) ==
    Rendered("ChangeRecordTrigger", f.operator,
             TriggerFieldCondition(f, option_map, wf_table_map, field_map))

\* parse_if_else_condition renders a group of one condition
RenderIfElse(cond) ==
    Rendered("parse_if_else_condition", cond.operator,
             parse_if_else_condition(Group("And", <<cond>>), wf_table_map, field_map))

NextCondition ==
    call.op = "none"
    /\ \/ \E i \in ConditionFieldIds, o \in RenderedOperators, v \in ConditionValues :
            LET c == [fieldId |-> i, operator |-> o, value |-> v]
            IN \/ RenderCondition(c)
               \/ RenderTriggerFilter(c)
               \/ RenderTriggerField(c)
       \/ \E c \in RenderedBranchConditions : RenderIfElse(c)

SpecCondition == InitCondition /\ [][NextCondition]_vars

(***************************************************************************)
(* Properties of the registry                                              *)
(***************************************************************************)

\* C1: when the scan has ended, a table id that was named by an authoritative
\* tableMap entry and also by a meta.name with another name is registered
\* under an authoritative name, whichever of the two was read first.
C1_AuthoritativeNameWins ==
    phase = "done" =>
        \A tid \in TableIds :
            (seenAuth[tid] # {} /\ seenMeta[tid] \ seenAuth[tid] # {})
                => DictGet(table_map, tid, NoneVal) \in seenAuth[tid]

\* the meta.name was read first, the authoritative name in a later fragment
C1_Witness ==
    /\ phase = "done"
    /\ \E tid \in TableIds :
           /\ firstSource[tid] = "meta"
           /\ seenAuth[tid] # {}
           /\ seenMeta[tid] \ seenAuth[tid] # {}
           /\ DictGet(table_map, tid, NoneVal) \in seenAuth[tid]

\* C2: when the scan has ended, every field key that was read holds the name
\* of its last occurrence in scan order (the field id when that name is empty).
C2_LastFieldNameWins ==
    phase = "done" =>
        \A k \in TableIds \X FieldIds :
            lastField[k] # Unseen
                => DictGet(field_map, k, NoneVal) = PyOr(lastField[k], k[2])

\* a key read twice with different names holds the later one
C2_Witness ==
    /\ phase = "done"
    /\ overwritten # NoneVal
    /\ Truthy(lastField[overwritten])
    /\ DictGet(field_map, overwritten, NoneVal) = lastField[overwritten]

\* positions in firstOrder of the keys with this field id
MatchesInOrder(field_id) == {i \in 1..Len(firstOrder) : firstOrder[i][2] = field_id}

\* the least element of a non-empty set of numbers
Least(S) == CHOOSE n \in S : \A m \in S : n <= m

\* C6: a call whose exact key is not registered and whose field id is
\* registered in some table returns the name held by the key that was read
\* first among the keys with that field id.
C6_FirstMatchInInsertionOrder ==
    (/\ call.op = "get_field_name"
     /\ \A i \in 1..Len(firstOrder) : firstOrder[i] # <<call.table_id, call.field_id>>
     /\ MatchesInOrder(call.field_id) # {})
    => LET k == firstOrder[Least(MatchesInOrder(call.field_id))]
       IN call.result = PyOr(lastField[k], k[2])

\* two tables register the field id under different names and the call
\* returns the name of the one read first
C6_Witness ==
    /\ call.op = "get_field_name"
    /\ call.table_id = <<"tblZ">>
    /\ Cardinality(MatchesInOrder(call.field_id)) = 2
    /\ LET k1 == firstOrder[Least(MatchesInOrder(call.field_id))]
           k2 == firstOrder[CHOOSE i \in MatchesInOrder(call.field_id) :
                               i # Least(MatchesInOrder(call.field_id))]
       IN /\ PyOr(lastField[k1], k1[2]) # PyOr(lastField[k2], k2[2])
          /\ call.result = PyOr(lastField[k1], k1[2])

(***************************************************************************)
(* Properties of the resolvers                                             *)
(***************************************************************************)

\* a text value: neither None nor an exception
IsText(v) == v # NoneVal /\ v # Raise /\ \A i \in 1..Len(v) : v[i] \in STRING

NamesOf(d) == {d[i][2] : i \in 1..Len(d)}

\* C4: a resolver that finds no display name returns the marker that embeds
\* the identifier and its kind, so every result for a non-empty identifier is
\* a registered name or that marker, never a bare identifier.
C4_MarkerWhenUnresolved ==
    /\ (call.op = "resolve_table_id" /\ Truthy(call.ref))
        => \/ call.result \in NamesOf(table_map)
           \/ call.result = <<"[deleted-table:">>
                            \o Strip(Strip(call.ref, {Quote}), {Backslash, Quote}) \o <<"]">>
    /\ (call.op = "resolve_field_id" /\ Truthy(call.ref))
        => \/ call.result \in NamesOf(field_map)
           \/ call.result = <<"[deleted-field:">> \o Strip(call.ref, {Quote}) \o <<"]">>

\* C5: when the alias map's FieldMap holds the identifier and the pair it maps
\* to is registered, resolve_field_id returns that name, also for an
\* identifier of the ref_tbl..._fld... shape.
C5_AliasMapFirst ==
    (call.op = "resolve_field_id" /\ Truthy(call.ref))
        => LET byAlias == AliasFieldLookup(Strip(call.ref, {Quote}), wf_table_map, field_map)
           IN Truthy(byAlias) => call.result = byAlias


(***************************************************************************)
(* Properties of translate_formula                                         *)
(***************************************************************************)

\* t occurs in s at position i
OccursAt(s, t, i) == i + Len(t) - 1 <= Len(s) /\ SubSeq(s, i, i + Len(t) - 1) = t

\* the number of occurrences of t in s
Count(s, t) == Cardinality({i \in 1..Len(s) : OccursAt(s, t, i)})

\* s holds an opener of a reference token
HasOpener(s) == \E i \in 1..Len(s) : s[i] \in FieldOpeners \cup {"$table["}

\* identifiers of the references of an expression
ExprIds == {"tblA", "tblZ", "fldX", "fldY", "fldZ"}

\* the field id is registered in some table
FieldKnown(fid) == \E i \in 1..Len(field_map) : field_map[i][1][2] = fid

\* the marker a translation renders for an unregistered field id
FieldMarker(op, id) ==
    <<LQ, IF op = "translate_formula" THEN "[unknown-field:" ELSE "[deleted-field:",
      id, "]", RQ>>

\* the first translation of an expression has been made
Translated == call.op \in {"translate_formula", "translate_formula_rel"} /\ call.pass = 1

\* C7: when the expression holds a table reference bitable::$table[ID] with
\* ID not in the table registry, the translated text holds ID inside a
\* bracketed marker; when it holds $field[ID] or $column[ID] with ID in no
\* table, the translated text holds ID inside a bracketed marker.
C7_MarkerInTranslation ==
    Translated =>
        \A id \in ExprIds :
            /\ (/\ Count(call.formula, <<Prefix, "$table[", id, "]">>) > 0
                /\ ~DictHas(table_map, <<id>>))
               => Count(call.result, <<LQ, "[deleted-table:", id, "]", RQ>>) > 0
            /\ (/\ \E o \in FieldOpeners : Count(call.formula, <<o, id, "]">>) > 0
                /\ ~FieldKnown(<<id>>))
               => Count(call.result, FieldMarker(call.op, id)) > 0

\* an unregistered table and an unregistered field are referenced and both
\* markers are in the translated text
C7_Witness ==
    /\ Translated
    /\ call.formula = <<Prefix, "$table[", "tblZ", "]", ".", "$field[", "fldZ", "]">>
    /\ ~DictHas(table_map, <<"tblZ">>)
    /\ ~FieldKnown(<<"fldZ">>)
    /\ Count(call.result, <<LQ, "[deleted-table:", "tblZ", "]", RQ>>) = 1
    /\ Count(call.result, FieldMarker(call.op, "fldZ")) = 1

\* C8: translating a translated text gives the same text, and the bracketed
\* name the table pass puts in for a registered table is still in the text
\* when the call returns.
C8_Idempotent ==
    /\ (call.op \in {"translate_formula", "translate_formula_rel"} /\ call.pass = 2)
        => call.result = call.formula
    /\ Translated =>
        \A id \in ExprIds :
            (/\ Count(call.formula, <<Prefix, "$table[", id, "]">>) > 0
             /\ DictHas(table_map, <<id>>))
            => Count(call.result, <<LQ>> \o DictGet(table_map, <<id>>, NoneVal) \o <<RQ>>) > 0

\* C10: the translation, in table tblB, of bitable::$table[tblA].$field[fldX]
\* with tblA and fldX registered holds the bracketed name of tblA once, the
\* bracketed name of fldX once, no prefix and no reference token.
C10_QualifiedReference ==
    (/\ Translated
     /\ call.formula = <<Prefix, "$table[", "tblA", "]", ".", "$field[", "fldX", "]">>
     /\ call.current_table_id = <<"tblB">>
     /\ DictHas(table_map, <<"tblA">>)
     /\ FieldKnown(<<"fldX">>))
    => /\ Count(call.result, <<LQ>> \o DictGet(table_map, <<"tblA">>, NoneVal) \o <<RQ>>) = 1
       /\ \E i \in 1..Len(field_map) :
              /\ field_map[i][1][2] = <<"fldX">>
              /\ Count(call.result, <<LQ>> \o field_map[i][2] \o <<RQ>>) = 1
       /\ Count(call.result, <<Prefix>>) = 0
       /\ ~HasOpener(call.result)

(***************************************************************************)
(* Properties of the step sequencing                                       *)
(***************************************************************************)

\* the positions of the steps with this id; no step is the target of an
\* absent successor id
PositionsOf(id) == {p \in 1..Len(steps) : Truthy(id) /\ steps[p].id = id}

\* the line cites the position of a step with this id
CitesStep(line, id) == \E p \in PositionsOf(id) : line = <<"goto:">> \o PyStr(p)

\* C9: while the steps are rendered step_id_map holds the id of every step
\* of the list, and a rendered loop or branch step cites its successor by
\* the 1-based position of the step with that id, be it earlier or later
\* in the list.
C9_SuccessorsByPosition ==
    /\ pc = "render"
        => \A p \in 1..Len(steps) :
               Truthy(steps[p].id) => DictHas(step_id_map, steps[p].id)
    /\ \A k \in 1..Len(lines) :
        /\ (/\ steps[k].type = "Loop"
            /\ PositionsOf(steps[k].startChildStepId) # {})
           => CitesStep(lines[k].loopStart, steps[k].startChildStepId)
        /\ (/\ steps[k].type = "IfElseBranch"
            /\ PositionsOf(steps[k].meetConditionStepId) # {})
           => CitesStep(lines[k].meet, steps[k].meetConditionStepId)
        /\ (/\ steps[k].type = "IfElseBranch"
            /\ PositionsOf(steps[k].notMeetConditionStepId) # {})
           => CitesStep(lines[k].notMeet, steps[k].notMeetConditionStepId)

\* steps [A, B, C] with B.notMeet = C and C.startChild = B: B cites step 3
\* and C cites step 2
C9_Witness ==
    /\ pc = "done"
    /\ Len(steps) = 3
    /\ steps[1].id = <<"sA">>
    /\ steps[2].id = <<"sB">>
    /\ steps[3].id = <<"sC">>
    /\ steps[2].type = "IfElseBranch"
    /\ steps[2].notMeetConditionStepId = <<"sC">>
    /\ steps[3].type = "Loop"
    /\ steps[3].startChildStepId = <<"sB">>
    /\ Len(lines) = 3
    /\ lines[2].notMeet = <<"goto:", "3">>
    /\ lines[3].loopStart = <<"goto:", "2">>

(***************************************************************************)
(* Properties of the rendering of a step                                   *)
(***************************************************************************)

\* the right value names the option only by its id
RightIsOption(right_value, opt_id) ==
    \/ ~right_value.isList /\ right_value.text = opt_id
    \/ /\ right_value.isList
       /\ Len(right_value.items) = 1
       /\ right_value.items[1].value = opt_id

\* C11: a rendered IfElseBranch step whose one condition compares the
\* registered field fldX with operator 'is' to the option id optO1, registered
\* as "Red", with no meet successor and a not-meet successor at position N,
\* states the condition with the field's name, the translated operator and
\* "Red", and renders not-meet as a jump to step N.
C11_BranchRendering ==
    (/\ call.op = "parse_step"
     /\ call.step.type = "IfElseBranch"
     /\ call.condition_obj.present
     /\ Len(call.condition_obj.conditions) = 1
     /\ ~call.condition_obj.conditions[1].isGroup
     /\ call.condition_obj.conditions[1].leftValue
            = ValueRef("dict", << >>, "", "", << <<"fldX">> >>)
     /\ call.condition_obj.conditions[1].operator = "is"
     /\ RightIsOption(call.condition_obj.conditions[1].rightValue, <<"optO1">>)
     /\ DictGet(option_map, <<"optO1">>, NoneVal) = <<"Red">>
     /\ FieldKnown(<<"fldX">>)
     /\ ~Truthy(call.step.meetConditionStepId)
     /\ DictHas(step_id_map, call.step.notMeetConditionStepId))
    => /\ call.condition = <<LQ>> \o FirstMatch(field_map, <<"fldX">>)
                           \o <<RQ, " ", "equals", " ", Quote, "Red", Quote>>
       /\ call.cites.meet = <<"continue">>
       /\ call.cites.notMeet
              = <<"goto:">> \o PyStr(DictGet(step_id_map,
                                             call.step.notMeetConditionStepId, 0))

\* the keys of the labelled entries of the rendered section
EntryKeys == {call.other.entries[i][1] : i \in 1..Len(call.other.entries)}

\* the keys of the payload that the renderer of the step type does not consume
Unconsumed ==
    {call.step_data[k][1] : k \in 1..Len(call.step_data)}
        \ ProcessedKeys(call.step_type, call.step_data)

Malformed(draft) == draft.isStr /\ draft.form \in {"unparseable", "nonmapping"}

\* step_id_map of a step list taken on its own
RECURSIVE MapOfSteps(_, _)
MapOfSteps(step_list, n) ==
    IF n = 0 THEN << >>
    ELSE RegisterStep(MapOfSteps(step_list, n - 1), step_list[n], n - 1)

\* the description of a workflow translated on its own
Alone(wf_item) ==
    [wf_item |-> wf_item,
     head |-> HeadLines(wf_item, wf_item.draft, block_map, table_map),
     steps |-> [k \in 1..Len(wf_item.draft.steps) |->
                  parse_step(wf_item.draft.steps[k],
                             MapOfSteps(wf_item.draft.steps, Len(wf_item.draft.steps)),
                             k)]]

\* C13: generate_document is never left by an error of a Draft; the
\* description emitted for a workflow whose Draft does not parse or is not a
\* mapping holds no step lines; the description of every other workflow is the
\* one the workflow gets when it is translated alone, whatever was emitted
\* before it.
C13_MalformedDraftIsolated ==
    /\ pc # "aborted"
    /\ \A i \in 1..Len(document) :
          IF Malformed(document[i].wf_item.draft)
          THEN document[i].steps = << >>
          ELSE document[i] = Alone(document[i].wf_item)

\* a workflow with steps is described after one whose Draft does not parse
C13_Witness ==
    /\ Len(document) = 2
    /\ document[1].wf_item.draft.form = "unparseable"
    /\ document[1].steps = << >>
    /\ Len(document[2].wf_item.draft.steps) = 3
    /\ document[2] = Alone(document[2].wf_item)
    /\ document[2].steps[2].notMeet = <<"goto:", "3">>


(***************************************************************************)
(* Properties of build_name_registry on ill-formed fragments               *)
(***************************************************************************)

\* C14: build_name_registry never raises: whatever sub-section a fragment
\* lacks, and whatever value stands where a table, a field definition or a
\* meta mapping is expected, the scan goes on and a registry is returned.
C14_NeverRaises == phase # "raised"

(***************************************************************************)
(* Frame of the translation                                                *)
(***************************************************************************)

\* the registries a document is translated with
BuiltRegistry ==
    << << <<<<"tblA">>, <<"A1">>>> >>,
       << <<<<<<"tblA">>, <<"fldX">>>>, <<"P">>>> >>,
       << >> >>

\* C15: translation only reads the shared lookups: no step of parse_workflow
\* (with the table and field lookups, format_value and parse_step it calls)
\* changes the table, field or option registry, after any number of
\* workflows; and from the moment parse_workflow has read the alias map of a
\* workflow to the moment its description is emitted, the alias map is the
\* one the workflow came with.
C15_TranslationReadOnly ==
    /\ registry = BuiltRegistry
    /\ (call.op = "parse_workflow" /\ call.head # NoHead)
          => wf_table_map = call.wf_item.TableMap

\* a second workflow is being rendered after a first one, with steps and an
\* alias map of its own, was emitted
C15_Witness ==
    /\ Len(document) >= 1
    /\ document[1].steps # << >>
    /\ document[1].wf_item.TableMap # << >>
    /\ pc = "render"
    /\ idx >= 1
    /\ call.wf_item.TableMap = << >>


(***************************************************************************)
(* Properties of the markers the completeness checker reads                *)
(***************************************************************************)

\* C16: an identifier a lookup fails to resolve appears in the text it returns
\* as a marker one of the checker's marker patterns matches, and the
\* identifier the pattern captures is the identifier that was looked up.
C16_UnresolvedIsEnumerable ==
    /\ (call.op = "resolve_table_id" /\ Truthy(call.ref)
        /\ call.result \notin NamesOf(table_map))
        => Strip(Strip(call.ref, {Quote}), {Backslash, Quote}) \in id_patterns(call.result)
    /\ (call.op = "resolve_field_id" /\ Truthy(call.ref)
        /\ call.result \notin NamesOf(field_map))
        => Strip(call.ref, {Quote}) \in id_patterns(call.result)


(***************************************************************************)
(* Properties of the workflow title                                        *)
(***************************************************************************)

\* the text holds the table name between the quotation marks
NamesTable(text, tname) ==
    \E i \in 1..Len(text) :
        /\ text[i] = LQ
        /\ i + Len(tname) + 1 <= Len(text)
        /\ SubSeq(text, i + 1, i + Len(tname)) = tname
        /\ text[i + Len(tname) + 1] = RQ

NameOf(tm, tid) == DictGet(tm, tid, NoneVal)

OneLevel(ref) ==
    /\ ref # NoneVal /\ Len(ref) = 4
    /\ ref[1] = "ref_" /\ ref[2] \in TblAtoms /\ ref[3] = "_" /\ ref[4] \in FldAtoms

\* the names the registry holds for a field token under any table
NamesOfField(fm, fid) == {fm[i][2] : i \in {j \in 1..Len(fm) : fm[j][1][2] = fid}}

\* C19 as stated: ref_T_F and ref_ref_T_F resolve to the same result under
\* the same alias map and registry, for any table token T and field token F.
C19_BothLevelsSameResult ==
    (call.op = "resolve_field_id" /\ OneLevel(call.ref))
        => call.result = resolve_field_id(<<"ref_">> \o call.ref, wf_table_map, field_map)

\* C19: when the registry holds a name for the field token F, ref_T_F and
\* ref_ref_T_F resolve to the same result under the same alias map and
\* registry, and that result is a name registered for F.
C19_BothLevelsSameName ==
    (/\ call.op = "resolve_field_id"
     /\ OneLevel(call.ref)
     /\ NamesOfField(field_map, <<call.ref[4]>>) # {})
        => /\ call.result = resolve_field_id(<<"ref_">> \o call.ref, wf_table_map, field_map)
           /\ call.result \in NamesOfField(field_map, <<call.ref[4]>>)

\* ref_tblA_fldX is resolved through the alias of tblA to a name the registry
\* holds for fldX, and so is ref_ref_tblA_fldX
C19_Witness ==
    /\ call.op = "resolve_field_id"
    /\ call.ref = <<"ref_", "tblA", "_", "fldX">>
    /\ DictHas(wf_table_map, <<"ref_", "tblA">>)
    /\ call.result \in NamesOfField(field_map, <<"fldX">>)
    /\ call.result = resolve_field_id(<<"ref_", "ref_", "tblA", "_", "fldX">>,
                                      wf_table_map, field_map)


(***************************************************************************)
(* Properties of the filter summaries                                      *)
(***************************************************************************)

\* C20: each extractor translates the whole expression first and reads the
\* clauses off the translated text: the summary is the list of the clauses
\* 「name」= right and 「name」≠ right found in the filters of the translated
\* expression, joined by the conjunction (after the label in the relationship
\* map), and empty when there is none.
C20_ExtractionOnTranslatedText ==
    /\ call.op = "extract_filter_conditions" =>
          LET clauses == ClausesOfTranslated(filter_matches(
                             translate_formula_rel(call.formula, call.current_table_id,
                                                   table_map, field_map), 1))
          IN call.result = IF clauses = << >> THEN << >>
                           ELSE FilterLabel \o Join(clauses, Conj)
    /\ call.op = "extract_filter_conditions_from_formula" =>
          call.result = Join(ClausesOfTranslated(filter_matches(
                                 translate_formula(call.formula, call.current_table_id,
                                                   table_map, field_map), 1)), Conj)


(***************************************************************************)
(* Properties of the field references of an expression                     *)
(***************************************************************************)

\* the expression holds a field reference to the id
RefersToField(formula, id) ==
    \E o \in FieldOpeners : Count(formula, <<o, id, "]">>) > 0

\* C21: a field reference is resolved in the current table first: when the
\* current table registers the field id, the translated text holds that name
\* in brackets, whatever other tables register under the id and whatever
\* table reference stands before the token; when the current table does not
\* register it, the text holds the name of the first table that does.
C21_CurrentTableFirst ==
    Translated =>
        \A id \in ExprIds :
            RefersToField(call.formula, id) =>
                LET own == DictGet(field_map, <<call.current_table_id, <<id>>>>, NoneVal)
                IN IF Truthy(own)
                   THEN Count(call.result, <<LQ>> \o own \o <<RQ>>) > 0
                   ELSE FieldKnown(<<id>>)
                        => Count(call.result,
                                 <<LQ>> \o FirstMatch(field_map, <<id>>) \o <<RQ>>) > 0

\* the current table is tblB, the reference follows a reference to tblA, both
\* tables register fldX, tblA first, and the text holds the name tblB gives
C21_Witness ==
    /\ Translated
    /\ call.current_table_id = <<"tblB">>
    /\ call.formula = <<Prefix, "$table[", "tblA", "]", ".", "$field[", "fldX", "]">>
    /\ FirstMatch(field_map, <<"fldX">>) = <<"P">>
    /\ DictGet(field_map, <<<<"tblB">>, <<"fldX">>>>, NoneVal) = <<"Q">>
    /\ Count(call.result, <<LQ, "Q", RQ>>) = 1
    /\ Count(call.result, <<LQ, "P", RQ>>) = 0


(***************************************************************************)
(* Properties of the successors that are no step of the draft              *)
(***************************************************************************)

\* the successor id is given and no step of the draft has it
Dangling(id) == Truthy(id) /\ PositionsOf(id) = {}

\* C22: a rendered loop or branch step whose successor id is the id of no
\* step cites the step "?" in the place of the number, and no rendering
\* raises; a branch without a meet (not-meet) successor renders the continue
\* (no-action) line and no jump.
C22_UnknownSuccessor ==
    \A k \in 1..Len(lines) :
        /\ Raise \notin {lines[k].loopStart, lines[k].meet, lines[k].notMeet}
        /\ (steps[k].type = "Loop" /\ Dangling(steps[k].startChildStepId))
              => lines[k].loopStart = <<"goto:", "?">>
        /\ steps[k].type = "IfElseBranch" =>
              /\ Dangling(steps[k].meetConditionStepId)
                    => lines[k].meet = <<"goto:", "?">>
              /\ Dangling(steps[k].notMeetConditionStepId)
                    => lines[k].notMeet = <<"goto:", "?">>
              /\ ~Truthy(steps[k].meetConditionStepId)
                    => lines[k].meet = <<"continue">>
              /\ ~Truthy(steps[k].notMeetConditionStepId)
                    => lines[k].notMeet = <<"no-action">>

\* a branch whose meet successor is no step of the draft and that has no
\* not-meet successor, and a loop whose body starts at no step
C22_Witness ==
    /\ pc = "done"
    /\ Len(lines) = 2
    /\ steps[1].type = "IfElseBranch"
    /\ Dangling(steps[1].meetConditionStepId)
    /\ lines[1].meet = <<"goto:", "?">>
    /\ lines[1].notMeet = <<"no-action">>
    /\ steps[2].type = "Loop"
    /\ Dangling(steps[2].startChildStepId)
    /\ lines[2].loopStart = <<"goto:", "?">>


(***************************************************************************)
(* Properties of the consumed keys                                         *)
(***************************************************************************)

\* C23: a key of the payload is recorded as consumed only when the renderer
\* of the step type reads it, so every key with a non-empty value is read by
\* the renderer or is the label of an entry of the generic section.
C23_ConsumedOnlyIfRendered ==
    call.op = "parse_step_data" =>
        \A i \in 1..Len(call.step_data) :
            LET k == call.step_data[i][1]
            IN /\ k \in ProcessedKeys(call.step_type, call.step_data)
                     => k \in KeysRead(call.step_type)
               /\ ~IsEmptyValue(call.step_data[i][2])
                     => k \in KeysRead(call.step_type) \cup EntryKeys


(***************************************************************************)
(* Properties of format_value                                              *)
(***************************************************************************)

ElementsOf(value, depth) ==
    [k \in 1..Len(value.items) |->
        format_value(value.items[k], option_map, depth + 1, wf_table_map, field_map)]

\* C25: a sequence with elements is rendered from its elements formatted one
\* level deeper: joined with commas on one line exactly when every formatted
\* element has no line break and is shorter than 50 characters, and otherwise
\* as one bulleted line per element, indented by the depth, in order.
C25_SequenceLayout ==
    (call.op = "format_value" /\ call.value.kind = "list" /\ call.value.items # << >>) =>
        LET elems == ElementsOf(call.value, call.depth)
            short == \A k \in 1..Len(elems) :
                         ~HasNewline(elems[k]) /\ TextLen(elems[k]) < 50
        IN call.result =
               IF short THEN Join(elems, <<", ">>)
               ELSE Join([k \in 1..Len(elems) |->
                             <<"\n">> \o Indent(call.depth) \o <<"- ">> \o elems[k]],
                         << >>)

\* C26: the recursion of format_value stops at a depth ceiling, so it never
\* descends through all the levels of the deepest values.
C26_DepthCeiling ==
    call.op = "format_value" => call.reached - call.depth < MaxNesting

\* C27: format_value returns a text for every value and every registry that
\* build_name_registry returns.
C27_AlwaysText ==
    call.op = "format_value" => call.result \notin {NoneVal, Raise}


(***************************************************************************)
(* Properties of build_name_registry on whole snapshots                    *)
(***************************************************************************)

\* C28: build_name_registry leaves the snapshot as it received it, so a
\* second build from the same snapshot returns the same maps and the same
\* flat table list as the first.
C28_SnapshotUnchanged ==
    call.op = "build_name_registry" =>
        /\ call.result.snapshot = call.input
        /\ call.builds = 2 =>
               /\ call.result.table_map = call.first.table_map
               /\ call.result.field_map = call.first.field_map
               /\ call.result.all_tables = call.first.all_tables

\* the snapshot the last build received
BuiltFrom == IF call.builds = 1 THEN call.input ELSE call.first.snapshot

EmptinessOperators == {"is_empty", "isEmpty", "is_not_empty", "isNotEmpty"}

\* C30: every condition renderer renders a condition with an emptiness
\* operator, in either spelling, as the field name and the translated
\* operator only: the condition ends with the operator and has no quoted
\* value.
C30_EmptinessWithoutValue ==
    (call.op = "condition" /\ call.operator \in EmptinessOperators) =>
        LET op_name == OperatorName(call.operator)
            n == Len(call.result)
        IN /\ \A i \in 1..n : call.result[i] # Quote
           /\ n >= Len(op_name)
           /\ SubSeq(call.result, n - Len(op_name) + 1, n) = op_name

=============================================================================
